---- MODULE Spec2Model ----
(***************************************************************************)
(* Model of the discount-rate resolution engine (TurboCache,               *)
(* TurboIndustryMapper, WACCUpdater, ValuationSystem.get_wacc_for_stock)    *)
(* and of the DCF engine (DCFCalculator) of the stock valuation calculator. *)
(*                                                                         *)
(* Conventions.                                                            *)
(*  - A Python str is a sequence of one-character strings.                 *)
(*  - Python None is the empty tuple <<>>; a present value x is <<x>>.      *)
(*  - A Python dict is a sequence of <<key, value>> pairs with distinct     *)
(*    keys, in insertion order (dicts iterate in insertion order).          *)
(*  - A WACC is an integer number of 1/10000 (0.12 is 1200).                *)
(*                                                                         *)
(* Specifications.                                                         *)
(*  - Spec: the resolver, each call and each build as one step.            *)
(*  - SpecDCF: the DCF engine and the valuation calls.                     *)
(*  - SpecSave: the save step of the build write by write, with crashes    *)
(*    of the process and a second process on the same cache directory.     *)
(***************************************************************************)
EXTENDS Integers, Sequences, FiniteSets, TLC

VARIABLES
    pc,                 \* "start" before the module-level objects exist, then "ready";
                        \* "dcf" in the specification of the DCF engine;
                        \* [main, other], a position per process, in SpecSave
    excel,              \* data/indname.xls: None (no file) or <<rows>>
    catalog,            \* rows of data/wacc*.xls (also data/cache/wacc_data.parquet)
    cacheFile,          \* turbo_cache/stock_wacc.json.gz and quick_index.json:
                        \* [state, data, quick_index]
    stock_wacc_cache,   \* TurboCache.stock_wacc_cache
    is_initialized,     \* TurboCache.is_initialized
    mapper_initialized, \* TurboIndustryMapper.is_initialized
    wacc_loaded,        \* WACCUpdater.wacc_index and wacc_data are loaded (not None)
    out                 \* the pending call and its result: a record with field op

vars == <<pc, excel, catalog, cacheFile, stock_wacc_cache, is_initialized,
          mapper_initialized, wacc_loaded, out>>

None == <<>>
Some(x) == <<x>>

(***************************************************************************)
(* str methods                                                             *)
(***************************************************************************)
lowerChars == <<"a","b","c","d","e","f","g","h","i","j","k","l","m",
                "n","o","p","q","r","s","t","u","v","w","x","y","z">>
upperChars == <<"A","B","C","D","E","F","G","H","I","J","K","L","M",
                "N","O","P","Q","R","S","T","U","V","W","X","Y","Z">>

otherChars == {" ", ":", ".", "?"}

\* the characters of the strings in use
Chars == {lowerChars[i] : i \in DOMAIN lowerChars}
             \cup {upperChars[i] : i \in DOMAIN upperChars} \cup otherChars

lowerOf ==
    [c \in Chars |->
        IF \E i \in DOMAIN upperChars : upperChars[i] = c
        THEN lowerChars[CHOOSE i \in DOMAIN upperChars : upperChars[i] = c]
        ELSE c]

upperOf ==
    [c \in Chars |->
        IF \E i \in DOMAIN lowerChars : lowerChars[i] = c
        THEN upperChars[CHOOSE i \in DOMAIN lowerChars : lowerChars[i] = c]
        ELSE c]

LowerChar(c) == lowerOf[c]

UpperChar(c) == upperOf[c]

\* str.lower()
Lower(s) == [i \in DOMAIN s |-> LowerChar(s[i])]

\* str.upper()
Upper(s) == [i \in DOMAIN s |-> UpperChar(s[i])]

\* str.strip(): leading and trailing whitespace removed
Strip(s) ==
    LET idx == {i \in DOMAIN s : s[i] # " "}
    IN  IF idx = {} THEN <<>>
        ELSE LET lo == CHOOSE i \in idx : \A j \in idx : i <= j
                 hi == CHOOSE i \in idx : \A j \in idx : j <= i
             IN  SubSeq(s, lo, hi)

\* a in b  (substring test)
Contains(b, a) ==
    \E i \in 1..(Len(b) - Len(a) + 1) : SubSeq(b, i, i + Len(a) - 1) = a

\* s.startswith(p)
StartsWith(s, p) == Len(p) <= Len(s) /\ SubSeq(s, 1, Len(p)) = p

\* str.split(): the whitespace-separated tokens, none of them empty
RECURSIVE Split(_)
Split(s) ==
    LET t == Strip(s)
    IN  IF t = <<>> THEN <<>>
        ELSE IF \E i \in DOMAIN t : t[i] = " "
             THEN LET sp == CHOOSE i \in DOMAIN t :
                                t[i] = " " /\ \A j \in 1..(i - 1) : t[j] # " "
                  IN  <<SubSeq(t, 1, sp - 1)>> \o Split(SubSeq(t, sp + 1, Len(t)))
             ELSE <<t>>

(***************************************************************************)
(* dict operations                                                         *)
(***************************************************************************)
DictHas(d, k) == \E i \in DOMAIN d : d[i][1] = k

DictGet(d, k) == d[CHOOSE i \in DOMAIN d : d[i][1] = k][2]

\* d.setdefault(k, v): an existing key keeps its value
DictSetDefault(d, k, v) ==
    IF DictHas(d, k) THEN d ELSE Append(d, <<k, v>>)

\* d[k] = v: an existing key keeps its position and takes the new value
DictSet(d, k, v) ==
    IF DictHas(d, k)
    THEN [i \in DOMAIN d |-> IF d[i][1] = k THEN <<k, v>> ELSE d[i]]
    ELSE Append(d, <<k, v>>)

DictKeys(d) == {d[i][1] : i \in DOMAIN d}

(***************************************************************************)
(* Index build: TurboCache._preprocess_data                                *)
(***************************************************************************)
NaN == <<"NaN">>        \* a missing cell of the reference table (pd.isna)

\* exchange_suffix_map, in source order
exchange_suffix_map == <<
    <<<<"N","Y","S","E">>, <<>>>>,
    <<<<"N","a","s","d","a","q","G","M">>, <<>>>>,
    <<<<"N","a","s","d","a","q","G","S">>, <<>>>>,
    <<<<"N","a","s","d","a","q","C","M">>, <<>>>>,
    <<<<"N","A","S","D","A","Q">>, <<>>>>,
    <<<<"A","M","E","X">>, <<>>>>,
    <<<<"S","Z","S","E">>, <<".","S","Z">>>>,
    <<<<"S","H","S","E">>, <<".","S","S">>>>,
    <<<<"S","E","H","K">>, <<".","H","K">>>>,
    <<<<"T","S","E">>, <<".","T">>>>,
    <<<<"T","W","S","E">>, <<".","T","W">>>>,
    <<<<"T","P","E","X">>, <<".","T","W">>>>,
    <<<<"L","S","E">>, <<".","L">>>>,
    <<<<"F","R","A">>, <<".","F">>>>,
    <<<<"E","P","A">>, <<".","P","A">>>> >>

\* str.split(':', 1) of a string that holds a colon
SplitColon(s) ==
    LET c == CHOOSE i \in DOMAIN s : s[i] = ":" /\ \A j \in 1..(i - 1) : s[j] # ":"
    IN  <<SubSeq(s, 1, c - 1), SubSeq(s, c + 1, Len(s))>>

\* a normalization that appends the suffix and keeps the whole raw value
process_exchange_ticker_unstripped(exchange_ticker) ==
    IF exchange_ticker = NaN THEN <<>>
    ELSE IF ~ \E i \in DOMAIN exchange_ticker : exchange_ticker[i] = ":"
    THEN exchange_ticker
    ELSE LET parts == SplitColon(exchange_ticker)
             suffix == IF DictHas(exchange_suffix_map, parts[1])
                       THEN DictGet(exchange_suffix_map, parts[1])
                       ELSE <<>>
         IN  exchange_ticker \o suffix

process_exchange_ticker(exchange_ticker) ==
    IF exchange_ticker = NaN THEN <<>>
    ELSE IF ~ \E i \in DOMAIN exchange_ticker : exchange_ticker[i] = ":"
    THEN exchange_ticker
    ELSE LET parts == SplitColon(exchange_ticker)
             suffix == IF DictHas(exchange_suffix_map, parts[1])
                       THEN DictGet(exchange_suffix_map, parts[1])
                       ELSE <<>>
         IN  parts[2] \o suffix

\* df['Exchange:Ticker'].str.split(':').str[0]
ExchangeOf(exchange_ticker) ==
    IF exchange_ticker = NaN THEN NaN
    ELSE IF \E i \in DOMAIN exchange_ticker : exchange_ticker[i] = ":"
    THEN SplitColon(exchange_ticker)[1]
    ELSE exchange_ticker

\* country_mapping.get(country, 'US')
RegionOf(country) ==
    CASE country = "China" -> "China"
      [] country = "Hong Kong" -> "China"
      [] country = "Macao" -> "China"
      [] country = "Taiwan" -> "China"
      [] country = "Japan" -> "Japan"
      [] country = "United States" -> "US"
      [] country = "US" -> "US"
      [] OTHER -> "US"

BuildDefaultWacc == 1200     \* wacc = 0.12

\* wacc_lookup: {(industry.lower().strip(), region): wacc}, later rows overwrite
RECURSIVE WaccLookup(_)
WaccLookup(wacc_data) ==
    IF wacc_data = <<>> THEN <<>>
    ELSE LET n == Len(wacc_data)
             row == wacc_data[n]
         IN  DictSet(WaccLookup(SubSeq(wacc_data, 1, n - 1)),
                     <<Strip(Lower(row.industry)), row.region>>, row.wacc)

\* for (lookup_industry, lookup_region), lookup_wacc in wacc_lookup.items():
\*     if lookup_region == region and industry_clean in lookup_industry: ... break
\* the hits of a scan that does not compare the region
FuzzyHitsAnyRegion(wacc_lookup, industry_clean, region) ==
    {i \in DOMAIN wacc_lookup :
        Contains(wacc_lookup[i][1][1], industry_clean)}

FuzzyHits(wacc_lookup, industry_clean, region) ==
    {i \in DOMAIN wacc_lookup :
        /\ wacc_lookup[i][1][2] = region
        /\ Contains(wacc_lookup[i][1][1], industry_clean)}

\* a scan that keeps the last hit instead of stopping at the first
FuzzyScanLast(wacc_lookup, industry_clean, region) ==
    LET hits == FuzzyHits(wacc_lookup, industry_clean, region)
    IN  IF hits = {} THEN None
        ELSE Some(wacc_lookup[CHOOSE i \in hits : \A j \in hits : i >= j][2])

FuzzyScan(wacc_lookup, industry_clean, region) ==
    LET hits == FuzzyHits(wacc_lookup, industry_clean, region)
    IN  IF hits = {} THEN None
        ELSE Some(wacc_lookup[CHOOSE i \in hits : \A j \in hits : i <= j][2])

\* a cascade that tries the US table before the fuzzy match of the own region
ResolveWaccUsFirst(wacc_lookup, industry_clean, region) ==
    LET key == <<industry_clean, region>>
        us_key == <<industry_clean, "US">>
        f2 == FuzzyScan(wacc_lookup, industry_clean, region)
        f3 == FuzzyScan(wacc_lookup, industry_clean, "US")
    IN  IF DictHas(wacc_lookup, key)
        THEN <<DictGet(wacc_lookup, key), <<region, "exact">>>>
        ELSE IF region # "US" /\ DictHas(wacc_lookup, us_key)
        THEN <<DictGet(wacc_lookup, us_key), <<"us_fallback">>>>
        ELSE IF f2 # None THEN <<f2[1], <<region, "fuzzy">>>>
        ELSE IF region # "US" /\ f3 # None THEN <<f3[1], <<"us_fuzzy_fallback">>>>
        ELSE <<BuildDefaultWacc, <<"default">>>>

\* steps 1 to 4 of the row loop: <<wacc, wacc_source>> of one reference row
ResolveWacc(wacc_lookup, industry_clean, region) ==
    LET key == <<industry_clean, region>>
        \* 1. exact match in the row's region
        t1 == IF DictHas(wacc_lookup, key)
              THEN <<Some(DictGet(wacc_lookup, key)), <<region, "exact">>>>
              ELSE <<None, None>>
        \* 2. fuzzy match in the row's region
        f2 == FuzzyScan(wacc_lookup, industry_clean, region)
        t2 == IF t1[1] = None /\ f2 # None THEN <<f2, <<region, "fuzzy">>>> ELSE t1
        \* 3. US data as the fallback of another region
        us_key == <<industry_clean, "US">>
        f3 == FuzzyScan(wacc_lookup, industry_clean, "US")
        t3 == IF t2[1] = None /\ region # "US"
              THEN IF DictHas(wacc_lookup, us_key)
                   THEN <<Some(DictGet(wacc_lookup, us_key)), <<"us_fallback">>>>
                   ELSE IF f3 # None THEN <<f3, <<"us_fuzzy_fallback">>>> ELSE t2
              ELSE t2
        \* 4. the final default
    IN  IF t3[1] = None THEN <<BuildDefaultWacc, <<"default">>>>
        ELSE <<t3[1][1], t3[2]>>

\* the body of the row loop: stock_wacc_mapping after one more row
MapRow(stock_wacc_mapping, wacc_lookup, row) ==
    LET symbol == process_exchange_ticker(row.ticker)
        industry == row.industry
        country == row.country
    IN  IF symbol # NaN /\ industry # NaN
        THEN LET region == RegionOf(country)
                 industry_clean == Strip(Lower(industry))
                 res == ResolveWacc(wacc_lookup, industry_clean, region)
             IN  DictSet(stock_wacc_mapping, symbol,
                         [wacc |-> res[1],
                          industry |-> industry,
                          country |-> country,
                          region |-> region,
                          exchange |-> ExchangeOf(row.ticker),
                          wacc_source |-> res[2]])
        ELSE stock_wacc_mapping

RECURSIVE MapRows(_, _)
MapRows(df, wacc_lookup) ==
    IF df = <<>> THEN <<>>
    ELSE MapRow(MapRows(SubSeq(df, 1, Len(df) - 1), wacc_lookup), wacc_lookup,
                df[Len(df)])

\* _preprocess_data: its return value and the mapping it builds.
\* It fails when indname.xls is missing and when no WACC table yields a row.
PreprocessOk == excel # None /\ catalog # <<>>

PreprocessMapping == MapRows(excel[1], WaccLookup(catalog))

(***************************************************************************)
(* Index queries: TurboCache and TurboIndustryMapper                       *)
(***************************************************************************)
\* TurboCache.get_stock_wacc on a cache in a given state
GetStockWacc(initialized, cache, symbol) ==
    IF ~ initialized THEN None
    ELSE LET sym == Strip(symbol)
             hits == {i \in DOMAIN cache :
                         \/ Upper(cache[i][1]) = Upper(sym)
                         \/ Lower(cache[i][1]) = Lower(sym)}
         IN  IF DictHas(cache, sym) THEN Some(DictGet(cache, sym))
             ELSE IF hits # {}
             THEN Some(cache[CHOOSE i \in hits : \A j \in hits : i <= j][2])
             ELSE None

get_stock_wacc(symbol) == GetStockWacc(is_initialized, stock_wacc_cache, symbol)

MapperDefaultWacc == 1200     \* return 0.12

\* TurboIndustryMapper.get_stock_info
get_stock_info(symbol) ==
    IF ~ mapper_initialized THEN None ELSE get_stock_wacc(symbol)

\* TurboIndustryMapper.get_wacc_direct; info.get('wacc') is falsy for a wacc of 0
get_wacc_direct(symbol) ==
    IF ~ mapper_initialized THEN MapperDefaultWacc
    ELSE LET info == get_stock_wacc(symbol)
         IN  IF info # None /\ info[1].wacc # 0 THEN info[1].wacc
             ELSE MapperDefaultWacc

\* TurboCache.batch_get_wacc: a dict symbol -> wacc
RECURSIVE CacheBatchLoop(_)
CacheBatchLoop(symbols) ==
    IF symbols = <<>> THEN <<>>
    ELSE LET n == Len(symbols)
             info == get_stock_wacc(symbols[n])
         IN  DictSet(CacheBatchLoop(SubSeq(symbols, 1, n - 1)), symbols[n],
                     IF info # None THEN info[1].wacc ELSE MapperDefaultWacc)

cache_batch_get_wacc(symbols) ==
    IF ~ is_initialized THEN <<>> ELSE CacheBatchLoop(symbols)

RECURSIVE DefaultDict(_)
DefaultDict(symbols) ==
    IF symbols = <<>> THEN <<>>
    ELSE DictSet(DefaultDict(SubSeq(symbols, 1, Len(symbols) - 1)),
                 symbols[Len(symbols)], MapperDefaultWacc)

\* TurboIndustryMapper.batch_get_wacc
batch_get_wacc(symbols) ==
    IF ~ mapper_initialized THEN DefaultDict(symbols)
    ELSE cache_batch_get_wacc(symbols)

(***************************************************************************)
(* Live fallback: WACCUpdater and DataProcessor                            *)
(***************************************************************************)
RegionChars(region) ==
    CASE region = "US" -> <<"U","S">>
      [] region = "China" -> <<"C","h","i","n","a">>
      [] region = "Japan" -> <<"J","a","p","a","n">>

\* DataProcessor.create_fast_lookup_index: {f"{region}:{industry}": wacc}
RECURSIVE WaccIndex(_)
WaccIndex(wacc_data) ==
    IF wacc_data = <<>> THEN <<>>
    ELSE LET n == Len(wacc_data)
             row == wacc_data[n]
             rest == WaccIndex(SubSeq(wacc_data, 1, n - 1))
         IN  IF row.industry # <<>>
             THEN DictSet(rest, RegionChars(row.region) \o <<":">> \o row.industry,
                          row.wacc)
             ELSE rest

\* the first row of wacc_df in `region` whose industry contains `pat`, ignoring case
FirstRowContaining(wacc_df, pat, region) ==
    LET hits == {i \in DOMAIN wacc_df :
                    /\ Contains(Lower(wacc_df[i].industry), Lower(pat))
                    /\ wacc_df[i].region = region}
    IN  IF hits = {} THEN None
        ELSE Some(wacc_df[CHOOSE i \in hits : \A j \in hits : i <= j].wacc)

\* DataProcessor.get_industry_wacc: [raised, value]; industry.split()[0] raises
\* IndexError when the industry holds whitespace only
get_industry_wacc(industry, region, wacc_df) ==
    LET r1 == FirstRowContaining(wacc_df, industry, region)
    IN  IF r1 # None THEN [raised |-> FALSE, value |-> r1]
        ELSE IF Split(industry) = <<>> THEN [raised |-> TRUE, value |-> None]
        ELSE [raised |-> FALSE,
              value |-> FirstRowContaining(wacc_df, Split(industry)[1], region)]

default_wacc_mapping == <<
    <<<<"s","o","f","t","w","a","r","e">>, 950>>,
    <<<<"t","e","c","h","n","o","l","o","g","y">>, 950>>,
    <<<<"i","n","t","e","r","n","e","t">>, 1100>>,
    <<<<"a","d","v","e","r","t","i","s","i","n","g">>, 850>>,
    <<<<"b","a","n","k","i","n","g">>, 750>>,
    <<<<"i","n","s","u","r","a","n","c","e">>, 800>>,
    <<<<"r","e","t","a","i","l">>, 900>>,
    <<<<"e","n","e","r","g","y">>, 800>>,
    <<<<"h","e","a","l","t","h","c","a","r","e">>, 850>>,
    <<<<"m","a","n","u","f","a","c","t","u","r","i","n","g">>, 850>>,
    <<<<"r","e","a","l"," ","e","s","t","a","t","e">>, 750>>,
    <<<<"u","t","i","l","i","t","i","e","s">>, 650>>,
    <<<<"t","e","l","e","c","o","m">>, 700>>,
    <<<<"c","o","n","s","u","m","e","r">>, 850>>,
    <<<<"m","e","d","i","a">>, 900>>,
    <<<<"p","h","a","r","m","a">>, 850>>,
    <<<<"b","i","o","t","e","c","h">>, 1200>>,
    <<<<"a","u","t","o">>, 900>>,
    <<<<"t","r","a","n","s","p","o","r","t","a","t","i","o","n">>, 850>>,
    <<<<"i","n","d","u","s","t","r","i","a","l">>, 850>> >>

MarketDefaultWacc == 900     \* return 0.09

\* WACCUpdater._get_default_wacc
get_default_wacc(industry) ==
    LET industry_lower == Lower(industry)
        hits == {i \in DOMAIN default_wacc_mapping :
                    \/ Contains(industry_lower, default_wacc_mapping[i][1])
                    \/ Contains(default_wacc_mapping[i][1], industry_lower)}
    IN  IF industry = <<>> THEN MarketDefaultWacc
        ELSE IF DictHas(default_wacc_mapping, industry_lower)
        THEN DictGet(default_wacc_mapping, industry_lower)
        ELSE IF hits # {}
        THEN default_wacc_mapping[CHOOSE i \in hits : \A j \in hits : i <= j][2]
        ELSE MarketDefaultWacc

\* WACCUpdater.ensure_wacc_data: <<return value, wacc data loaded afterwards>>
ensure_wacc_data ==
    IF ~ wacc_loaded
    THEN IF catalog # <<>> THEN <<TRUE, TRUE>> ELSE <<FALSE, FALSE>>
    ELSE <<TRUE, TRUE>>

\* the fuzzy scan of the index in WACCUpdater.get_wacc_for_industry
IndexFuzzy(wacc_index, industry, region) ==
    LET hits == {i \in DOMAIN wacc_index :
                    /\ StartsWith(wacc_index[i][1], RegionChars(region) \o <<":">>)
                    /\ Contains(Lower(wacc_index[i][1]), Lower(industry))}
    IN  IF hits = {} THEN None
        ELSE Some(wacc_index[CHOOSE i \in hits : \A j \in hits : i <= j][2])

\* WACCUpdater.get_wacc_for_industry(industry, 'US'): [raised, value, loaded]
get_wacc_for_industry(industry) ==
    LET ens == ensure_wacc_data
        wacc_index == WaccIndex(catalog)
        key == RegionChars("US") \o <<":">> \o industry
        fz == IndexFuzzy(wacc_index, industry, "US")
        dp == get_industry_wacc(industry, "US", catalog)
    IN  IF ~ ens[1]
        THEN [raised |-> FALSE, value |-> Some(get_default_wacc(industry)),
              loaded |-> ens[2]]
        ELSE IF wacc_index # <<>> /\ DictHas(wacc_index, key)
        THEN [raised |-> FALSE, value |-> Some(DictGet(wacc_index, key)),
              loaded |-> ens[2]]
        ELSE IF wacc_index # <<>> /\ fz # None
        THEN [raised |-> FALSE, value |-> fz, loaded |-> ens[2]]
        ELSE IF dp.raised
        THEN [raised |-> TRUE, value |-> None, loaded |-> ens[2]]
        ELSE IF dp.value # None
        THEN [raised |-> FALSE, value |-> dp.value, loaded |-> ens[2]]
        ELSE [raised |-> FALSE, value |-> Some(get_default_wacc(industry)),
              loaded |-> ens[2]]

(***************************************************************************)
(* ValuationSystem.get_wacc_for_stock                                      *)
(***************************************************************************)
DEFAULT_WACC == 892           \* config.DEFAULT_WACC = 0.0892

UnknownIndustry == <<"?">>    \* the label given when no hint is supplied

\* the branch taken with a hint (industry, or sector when industry is falsy)
FallbackBranch(hint) ==
    LET fb == get_wacc_for_industry(hint)
    IN  IF fb.raised
        THEN [raised |-> TRUE, wacc |-> None, source |-> <<"raised">>, label |-> hint,
              loaded |-> fb.loaded]
        ELSE IF fb.value # None
        THEN [raised |-> FALSE, wacc |-> fb.value, source |-> <<"yfinance_fallback">>,
              label |-> hint, loaded |-> fb.loaded]
        ELSE [raised |-> FALSE, wacc |-> Some(DEFAULT_WACC), source |-> <<"default">>,
              label |-> hint, loaded |-> fb.loaded]

\* [raised, wacc, source, label, loaded]: the returned triple (wacc is None or
\* <<number>>), whether the call raised, and WACCUpdater's state afterwards
get_wacc_for_stock(symbol, sector, industry) ==
    LET wacc == get_wacc_direct(symbol)
        stock_info == get_stock_info(symbol)
    IN  IF stock_info # None
        THEN [raised |-> FALSE, wacc |-> Some(wacc), source |-> <<"turbo_cache">>,
              label |-> stock_info[1].industry, loaded |-> wacc_loaded]
        ELSE IF industry # <<>> THEN FallbackBranch(industry)
        ELSE IF sector # <<>> THEN FallbackBranch(sector)
        ELSE [raised |-> FALSE, wacc |-> Some(DEFAULT_WACC), source |-> <<"default">>,
              label |-> UnknownIndustry, loaded |-> wacc_loaded]

(***************************************************************************)
(* Inputs                                                                  *)
(***************************************************************************)
MaxRows == 2        \* rows of the reference table
MaxCatalog == 2     \* rows of the WACC tables
MaxBatch == 2       \* symbols of a batch query

sSteel == <<"S","t","e","e","l">>
sSteelMills == <<"S","t","e","e","l"," ","M","i","l","l","s">>
sSte == <<"S","t","e">>
sSteelCo == <<"S","t","e","e","l"," ","C","o">>
sBlank == <<" ">>
sZinc == <<"Z","i","n","c">>
sBank == <<"B","a","n","k">>

CatalogRows == {
    [industry |-> sSteel, region |-> "US", wacc |-> 700],
    [industry |-> sSteelMills, region |-> "China", wacc |-> 900],
    [industry |-> sSteelMills, region |-> "US", wacc |-> 0] }

ReferenceRows == {
    [ticker |-> <<"N","Y","S","E",":","A","A">>, industry |-> sSteel, country |-> "United States"],
    [ticker |-> <<"a","a">>, industry |-> sSteelCo, country |-> "United States"],
    [ticker |-> <<"S","E","H","K",":","A","A">>, industry |-> sSteel, country |-> "Hong Kong"],
    [ticker |-> <<"N","A","S","D","A","Q",":","A","A">>, industry |-> sSte, country |-> "Hong Kong"] }

\* the sequences over S of at most n rows, no row twice
RECURSIVE Tables(_, _)
Tables(S, n) ==
    IF n = 0 THEN {<<>>}
    ELSE LET shorter == Tables(S, n - 1)
             longest == {p \in shorter \X S :
                            Len(p[1]) = n - 1 /\ \A i \in DOMAIN p[1] : p[1][i] # p[2]}
         IN  shorter \cup {Append(p[1], p[2]) : p \in longest}

QuerySymbols == {<<"A","A">>, <<"a","a">>, <<" ","A","A">>, <<"Z","Z">>}

\* (industry, sector) hints: neither, one alone, both
HintPairs == {<<<<>>, <<>>>>, <<sSteel, <<>>>>, <<sBlank, <<>>>>, <<sZinc, <<>>>>,
              <<sBank, <<>>>>, <<<<>>, sSteel>>, <<<<>>, sZinc>>, <<sZinc, sSteel>>}

BatchSymbols == {<<"A","A">>, <<"Z","Z">>}

RECURSIVE SymbolLists(_)
SymbolLists(n) ==
    IF n = 0 THEN {<<>>}
    ELSE LET shorter == SymbolLists(n - 1)
         IN  shorter \cup {Append(l, q) : l \in {u \in shorter : Len(u) = n - 1},
                                          q \in BatchSymbols}

NoCall == [op |-> "none"]

(***************************************************************************)
(* The resolver as a state machine                                         *)
(***************************************************************************)
\* ---- the cache on disk: stock_wacc.json.gz and quick_index.json ----
\* json.dump writes a float as a number, a str as a string and the float NaN
\* as the token NaN; json.load reads each back.  A JSON value is a tagged
\* tuple, a JSON object the sequence of its <<name, value>> members.
JNum(x) == <<"num", x>>
JStr(s) == <<"str", s>>
JNaN == <<"nan">>

JsonLoadValue(v) == IF v = JNaN THEN NaN ELSE v[2]

\* a serializer that loses the resolution-source tag
JsonDumpEntryNoSource(e) ==
    << <<"wacc", JNum(e.wacc)>>,
       <<"industry", JStr(e.industry)>>,
       <<"country", JStr(e.country)>>,
       <<"region", JStr(e.region)>>,
       <<"exchange", IF e.exchange = NaN THEN JNaN ELSE JStr(e.exchange)>> >>

JsonDumpEntry(e) ==
    << <<"wacc", JNum(e.wacc)>>,
       <<"industry", JStr(e.industry)>>,
       <<"country", JStr(e.country)>>,
       <<"region", JStr(e.region)>>,
       <<"exchange", IF e.exchange = NaN THEN JNaN ELSE JStr(e.exchange)>>,
       <<"wacc_source", JStr(e.wacc_source)>> >>

JsonLoadEntry(o) ==
    [name \in {o[i][1] : i \in DOMAIN o} |->
        JsonLoadValue(o[CHOOSE i \in DOMAIN o : o[i][1] = name][2])]

\* json.dump(stock_wacc_mapping, f) and json.load(f)
JsonDump(mapping) ==
    [i \in DOMAIN mapping |-> <<mapping[i][1], JsonDumpEntry(mapping[i][2])>>]

JsonLoad(payload) ==
    [i \in DOMAIN payload |-> <<payload[i][1], JsonLoadEntry(payload[i][2])>>]

\* quick_index.json as _preprocess_data writes it
CacheVersion == "2.0"
QuickIndex(mapping) ==
    [total_stocks |-> Len(mapping), cache_version |-> CacheVersion]

\* The two files after a complete save; neither file; an index file that is
\* not a gzip stream of JSON.
ValidFile(mapping) ==
    [state |-> "valid", data |-> JsonDump(mapping),
     quick_index |-> Some(QuickIndex(mapping))]
MissingFile == [state |-> "missing", data |-> <<>>, quick_index |-> None]
CorruptFile == [state |-> "corrupt", data |-> <<>>, quick_index |-> None]

\* Before the module-level TurboCache() runs: the source tables on disk, and a
\* cache file that is missing, unreadable, or the one a previous run saved
Init ==
    /\ pc = "start"
    /\ excel \in {None} \cup {Some(t) : t \in Tables(ReferenceRows, MaxRows)}
    /\ catalog \in Tables(CatalogRows, MaxCatalog)
    /\ cacheFile \in {MissingFile, CorruptFile} \cup
                     (IF excel # None /\ catalog # <<>>
                      THEN {ValidFile(MapRows(excel[1], WaccLookup(catalog)))}
                      ELSE {})
    /\ stock_wacc_cache = <<>>
    /\ is_initialized = FALSE
    /\ mapper_initialized = FALSE
    /\ wacc_loaded = FALSE
    /\ out = NoCall

\* TurboCache.__init__ and _initialize, then TurboIndustryMapper.__init__
Initialize ==
    /\ pc = "start"
    /\ pc' = "ready"
    /\ IF cacheFile.state = "valid"
       THEN \* _load_from_cache returns True
            /\ stock_wacc_cache' = JsonLoad(cacheFile.data)
            /\ is_initialized' = TRUE
            /\ UNCHANGED cacheFile
       ELSE IF PreprocessOk
       THEN \* the file is missing or unreadable: _preprocess_data
            /\ stock_wacc_cache' = PreprocessMapping
            /\ cacheFile' = ValidFile(PreprocessMapping)
            /\ is_initialized' = TRUE
       ELSE /\ UNCHANGED <<stock_wacc_cache, cacheFile>>
            /\ is_initialized' = FALSE
    /\ mapper_initialized' = is_initialized'
    /\ UNCHANGED <<excel, catalog, wacc_loaded, out>>

\* data/indname.xls is put in place after a start without it
ProvideSources ==
    /\ pc = "ready"
    /\ out = NoCall
    /\ excel = None
    /\ excel' \in {Some(t) : t \in Tables(ReferenceRows, MaxRows)}
    /\ UNCHANGED <<pc, catalog, cacheFile, stock_wacc_cache, is_initialized,
                   mapper_initialized, wacc_loaded, out>>

\* TurboIndustryMapper.rebuild_cache -> TurboCache.rebuild_cache -> _preprocess_data
RebuildCache ==
    /\ pc = "ready"
    /\ out = NoCall
    /\ IF PreprocessOk
       THEN /\ stock_wacc_cache' = PreprocessMapping
            /\ cacheFile' = ValidFile(PreprocessMapping)
            /\ mapper_initialized' = TRUE
            /\ out' = [op |-> "rebuild_cache", result |-> TRUE]
       ELSE /\ UNCHANGED <<stock_wacc_cache, cacheFile, mapper_initialized>>
            /\ out' = [op |-> "rebuild_cache", result |-> FALSE]
    /\ UNCHANGED <<pc, excel, catalog, is_initialized, wacc_loaded>>

CallGetStockWacc ==
    /\ pc = "ready"
    /\ out = NoCall
    /\ \E symbol \in QuerySymbols :
          out' = [op |-> "get_stock_wacc", symbol |-> symbol,
                  result |-> get_stock_wacc(symbol)]
    /\ UNCHANGED <<pc, excel, catalog, cacheFile, stock_wacc_cache, is_initialized,
                   mapper_initialized, wacc_loaded>>

CallGetWaccDirect ==
    /\ pc = "ready"
    /\ out = NoCall
    /\ \E symbol \in QuerySymbols :
          out' = [op |-> "get_wacc_direct", symbol |-> symbol,
                  result |-> get_wacc_direct(symbol)]
    /\ UNCHANGED <<pc, excel, catalog, cacheFile, stock_wacc_cache, is_initialized,
                   mapper_initialized, wacc_loaded>>

CallBatchGetWacc ==
    /\ pc = "ready"
    /\ out = NoCall
    /\ \E symbols \in SymbolLists(MaxBatch) :
          out' = [op |-> "batch_get_wacc", symbols |-> symbols,
                  result |-> batch_get_wacc(symbols)]
    /\ UNCHANGED <<pc, excel, catalog, cacheFile, stock_wacc_cache, is_initialized,
                   mapper_initialized, wacc_loaded>>

CallGetWaccForStock ==
    /\ pc = "ready"
    /\ out = NoCall
    /\ \E symbol \in BatchSymbols, hp \in HintPairs :
          LET r == get_wacc_for_stock(symbol, hp[2], hp[1])
          IN  /\ out' = [op |-> "get_wacc_for_stock", symbol |-> symbol,
                         industry |-> hp[1], sector |-> hp[2],
                         raised |-> r.raised, wacc |-> r.wacc,
                         source |-> r.source, label |-> r.label]
              /\ wacc_loaded' = r.loaded
    /\ UNCHANGED <<pc, excel, catalog, cacheFile, stock_wacc_cache, is_initialized,
                   mapper_initialized>>

\* the caller takes the result of the pending call
Return ==
    /\ pc = "ready"
    /\ out # NoCall
    /\ out' = NoCall
    /\ UNCHANGED <<pc, excel, catalog, cacheFile, stock_wacc_cache, is_initialized,
                   mapper_initialized, wacc_loaded>>

Next ==
    \/ Initialize
    \/ ProvideSources
    \/ RebuildCache
    \/ CallGetStockWacc
    \/ CallGetWaccDirect
    \/ CallBatchGetWacc
    \/ CallGetWaccForStock
    \/ Return

Spec == Init /\ [][Next]_vars

(***************************************************************************)
(* The DCF engine (dcf_calculator.py) and the single-stock valuation.      *)
(* Money is an integer number of cents, a rate an integer number of        *)
(* 1/10000 (the unit of the WACC values above); a float product or         *)
(* quotient is rounded down to the unit.  A Python dict with optional keys *)
(* is a record whose fields are None when the key is absent.               *)
(***************************************************************************)
RateUnit == 10000                  \* the rate 1.0
PERPETUAL_GROWTH_RATE == 250       \* config.PERPETUAL_GROWTH_RATE = 0.025
FORECAST_YEARS == 10               \* config.FORECAST_YEARS
FadeStart == 5                     \* years that use the historical growth rate
FadeYears == 5                     \* decline_factor = (year - 5) / 5
OvervaluedBelow == 1000            \* VALUATION_THRESHOLDS, IRR < 10%
FairBelow == 1500                  \* VALUATION_THRESHOLDS, IRR < 15%
IrrLow == -9000                    \* irr < -0.9 is rejected
IrrHigh == 50000                   \* irr > 5.0 is rejected

\* floor(x * a / b), computed without leaving the 32-bit range
MulDiv(x, a, b) == (x \div b) * a + ((x % b) * a) \div b

\* a projection that applies the perpetual growth rate in every year
YearGrowthRateUniform(growth_rate, year) == FadeYears * PERPETUAL_GROWTH_RATE

\* the growth rate of a year, in units of 1/(FadeYears * RateUnit):
\* growth_rate * (1 - decline_factor) + perpetual_growth_rate * decline_factor
YearGrowthRate(growth_rate, year) ==
    IF year <= FadeStart THEN FadeYears * growth_rate
    ELSE growth_rate * (FadeYears - (year - FadeStart))
         + PERPETUAL_GROWTH_RATE * (year - FadeStart)

\* fcf * (1 + year_growth_rate)
Grow(fcf, rate) == fcf + (fcf * rate) \div (FadeYears * RateUnit)

\* the loop of _project_future_fcf from a year on: future_fcf so far, its last
\* element (the latest actual cash flow before year 1)
RECURSIVE ProjectYears(_, _, _, _)
ProjectYears(future_fcf, prev, growth_rate, year) ==
    IF year > FORECAST_YEARS THEN future_fcf
    ELSE LET fcf == Grow(prev, YearGrowthRate(growth_rate, year))
         IN  ProjectYears(Append(future_fcf, fcf), fcf, growth_rate, year + 1)

project_future_fcf(latest_fcf, growth_rate) ==
    ProjectYears(<<>>, latest_fcf, growth_rate, 1)

\* a terminal value with the denominator the other way round:
\* terminal_fcf / (perpetual_growth_rate - wacc)
calculate_terminal_value_negated(final_year_fcf, wacc) ==
    LET terminal_fcf == Grow(final_year_fcf, FadeYears * PERPETUAL_GROWTH_RATE)
    IN  0 - MulDiv(terminal_fcf, RateUnit, wacc - PERPETUAL_GROWTH_RATE)

calculate_terminal_value(final_year_fcf, wacc) ==
    LET terminal_fcf == Grow(final_year_fcf, FadeYears * PERPETUAL_GROWTH_RATE)
    IN  MulDiv(terminal_fcf, RateUnit, wacc - PERPETUAL_GROWTH_RATE)

\* x / (1 + wacc) ** n
RECURSIVE Discount(_, _, _)
Discount(x, wacc, n) ==
    IF n = 0 THEN x
    ELSE MulDiv(Discount(x, wacc, n - 1), RateUnit, RateUnit + wacc)

calculate_present_value(future_fcf, wacc) ==
    [i \in DOMAIN future_fcf |-> Discount(future_fcf[i], wacc, i)]

RECURSIVE SumSeq(_)
SumSeq(s) == IF s = <<>> THEN 0 ELSE s[Len(s)] + SumSeq(SubSeq(s, 1, Len(s) - 1))

\* an IRR step without the bounds check
calculate_irr_unbounded(fsolve_result) == Some(fsolve_result)

\* _calculate_irr: the value fsolve hands back, kept only inside the bounds
calculate_irr(fsolve_result) ==
    IF fsolve_result < IrrLow \/ fsolve_result > IrrHigh THEN None
    ELSE Some(fsolve_result)

DcfError(tag) == [error |-> Some(tag)]

\* calculate_dcf_valuation(stock_data, wacc); fsolve_result is what the root
\* finder returns for the cash flows of this call
calculate_dcf_valuation(stock_data, wacc, fsolve_result) ==
    IF stock_data.error # None THEN DcfError(stock_data.error[1])
    ELSE IF \/ stock_data.latest_fcf = None
            \/ stock_data.growth_rate = None
            \/ stock_data.shares_outstanding = None
            \/ stock_data.current_price = None
    THEN DcfError("dcf_failed")                    \* KeyError, caught
    ELSE LET latest_fcf == stock_data.latest_fcf[1]
             growth_rate == stock_data.growth_rate[1]
             shares_outstanding == stock_data.shares_outstanding[1]
             current_price == stock_data.current_price[1]
         IN  IF latest_fcf <= 0 THEN DcfError("negative_fcf")
             ELSE IF wacc <= PERPETUAL_GROWTH_RATE THEN DcfError("wacc_too_low")
             \* enterprise_value / shares_outstanding and
             \* (intrinsic_value - current_price) / current_price:
             \* ZeroDivisionError, caught
             ELSE IF shares_outstanding = 0 \/ current_price = 0
             THEN DcfError("dcf_failed")
             ELSE
             LET future_fcf == project_future_fcf(latest_fcf, growth_rate)
                 terminal_value ==
                     calculate_terminal_value(future_fcf[Len(future_fcf)], wacc)
                 pv_fcf == calculate_present_value(future_fcf, wacc)
                 pv_terminal == Discount(terminal_value, wacc, FORECAST_YEARS)
                 enterprise_value == SumSeq(pv_fcf) + pv_terminal
                 intrinsic_value == enterprise_value \div shares_outstanding
             IN  [error |-> None,
                  symbol |-> stock_data.symbol,
                  current_price |-> current_price,
                  intrinsic_value |-> intrinsic_value,
                  upside_downside |->
                      MulDiv(intrinsic_value - current_price, RateUnit,
                             current_price),
                  irr |-> calculate_irr(fsolve_result),
                  wacc |-> wacc,
                  growth_rate |-> growth_rate,
                  latest_fcf |-> latest_fcf,
                  enterprise_value |-> enterprise_value,
                  terminal_value |-> terminal_value,
                  pv_terminal |-> pv_terminal,
                  future_fcf |-> future_fcf,
                  pv_fcf |-> pv_fcf,
                  shares_outstanding |-> shares_outstanding,
                  forecast_years |-> FORECAST_YEARS,
                  perpetual_growth_rate |-> PERPETUAL_GROWTH_RATE]

\* thresholds that put the boundaries into the lower class
evaluate_valuation_inclusive(dcf_result) ==
    IF dcf_result.error # None THEN "cannot_evaluate"
    ELSE IF dcf_result.irr = None THEN "cannot_calculate_irr"
    ELSE IF dcf_result.irr[1] <= OvervaluedBelow THEN "overvalued"
    ELSE IF dcf_result.irr[1] <= FairBelow THEN "fair"
    ELSE "undervalued"

evaluate_valuation(dcf_result) ==
    IF dcf_result.error # None THEN "cannot_evaluate"
    ELSE IF dcf_result.irr = None THEN "cannot_calculate_irr"
    ELSE IF dcf_result.irr[1] < OvervaluedBelow THEN "overvalued"
    ELSE IF dcf_result.irr[1] < FairBelow THEN "fair"
    ELSE "undervalued"

\* ---- create_sensitivity_analysis ----
WaccRange == 200                   \* wacc_range = 0.02
GrowthRange == 500                 \* growth_range = 0.05

\* f"{x:.1%}": the rate in tenths of a percent, rounded to the nearest one
\* (a tie to the even one)
FormatPercent1(x) ==
    LET q == x \div 10
        r == x % 10
    IN  IF r < 5 THEN q
        ELSE IF r > 5 THEN q + 1
        ELSE IF q % 2 = 0 THEN q ELSE q + 1

\* the scenarios in the order of the two loops: <<wacc, growth>>
SensitivityCells(base_wacc, base_growth) ==
    LET wacc_scenarios ==
            <<base_wacc - WaccRange, base_wacc, base_wacc + WaccRange>>
        growth_scenarios ==
            <<base_growth - GrowthRange, base_growth, base_growth + GrowthRange>>
    IN  [k \in 1..9 |-> <<wacc_scenarios[((k - 1) \div 3) + 1],
                           growth_scenarios[((k - 1) % 3) + 1]>>]

\* a loop body that writes the growth rate into the caller's dict
DataAfterCellAliased(stock_data, modified_data) == modified_data

\* the caller's dict after one pass: modified_data is a copy, the assignment
\* to its growth_rate leaves stock_data alone
DataAfterCell(stock_data, modified_data) == stock_data

\* the two loops from a scenario on: the dict built so far and the caller's
\* stock data as it is by then
RECURSIVE SensitivityLoop(_, _, _, _, _)
SensitivityLoop(sensitivity_data, stock_data, cells, k, fsolve_result) ==
    IF k > Len(cells)
    THEN [sensitivity_data |-> sensitivity_data, stock_data |-> stock_data]
    ELSE LET wacc == cells[k][1]
             growth == cells[k][2]
             modified_data == [stock_data EXCEPT !.growth_rate = Some(growth)]
             result == calculate_dcf_valuation(modified_data, wacc,
                                               fsolve_result)
             key == <<FormatPercent1(wacc), FormatPercent1(growth)>>
             stored == IF result.error # None THEN sensitivity_data
                       ELSE DictSet(sensitivity_data, key,
                                    [intrinsic_value |-> result.intrinsic_value,
                                     upside_downside |-> result.upside_downside,
                                     wacc |-> wacc,
                                     growth_rate |-> growth])
         IN  SensitivityLoop(stored, DataAfterCell(stock_data, modified_data),
                             cells, k + 1, fsolve_result)

\* create_sensitivity_analysis(stock_data, base_wacc) with the default ranges:
\* whether it raised, what it returned, and the caller's stock data afterwards
create_sensitivity_analysis(stock_data, base_wacc, fsolve_result) ==
    IF stock_data.error # None
    THEN [raised |-> FALSE, result |-> None, stock_data |-> stock_data]
    ELSE IF stock_data.growth_rate = None          \* KeyError, not caught
    THEN [raised |-> TRUE, result |-> None, stock_data |-> stock_data]
    ELSE LET loop == SensitivityLoop(<<>>, stock_data,
                                     SensitivityCells(base_wacc,
                                                      stock_data.growth_rate[1]),
                                     1, fsolve_result)
         IN  [raised |-> FALSE,
              result |-> Some(loop.sensitivity_data),
              stock_data |-> loop.stock_data]

\* StockDataFetcher.get_complete_data: what it returns for what the data
\* source delivers (stock_info, the converted latest free cash flow, the shares)
get_complete_data(symbol, stock_info, latest_fcf, shares_outstanding) ==
    IF stock_info = None \/ latest_fcf = None \/ shares_outstanding = None
    THEN [error |-> Some("fetch"), symbol |-> symbol, sector |-> None,
          industry |-> None, latest_fcf |-> None, growth_rate |-> None,
          shares_outstanding |-> None, current_price |-> None]
    ELSE [error |-> None, symbol |-> symbol,
          sector |-> stock_info[1].sector,
          industry |-> stock_info[1].industry,
          latest_fcf |-> latest_fcf,
          growth_rate |-> None,
          shares_outstanding |-> shares_outstanding,
          current_price |-> Some(stock_info[1].current_price)]

\* valuate_single_stock in its three steps.  The WACC step runs when the data
\* carries no error, the DCF step when the WACC step returned.
NotRun == [raised |-> FALSE, wacc |-> None, source |-> None, label |-> None,
           loaded |-> wacc_loaded]

WaccStep(symbol, stock_data) ==
    IF stock_data.error # None THEN NotRun
    ELSE get_wacc_for_stock(symbol, stock_data.sector, stock_data.industry)

DcfStep(stock_data, w, fsolve_result) ==
    IF w.wacc = None THEN DcfError("not_run")
    ELSE calculate_dcf_valuation(stock_data, w.wacc[1], fsolve_result)

\* the record valuate_single_stock returns, given the results of its steps
valuate_single_stock(symbol, stock_data, w, dcf_result) ==
    IF stock_data.error # None
    THEN [error |-> stock_data.error, symbol |-> symbol]
    ELSE IF w.raised
    THEN [error |-> Some("raised"), symbol |-> symbol]
    ELSE IF dcf_result.error # None
    THEN [error |-> dcf_result.error, symbol |-> symbol]
    ELSE [sector |-> stock_data.sector,
          industry |-> stock_data.industry,
          damodaran_industry |-> w.label,
          mapping_source |-> w.source,
          evaluation |-> evaluate_valuation(dcf_result)] @@ dcf_result

\* One pass of the loop body of valuate_multiple_stocks: the data yfinance
\* returned for the ticker, then valuate_single_stock on it.  raised tells
\* whether valuate_single_stock ended in an exception.
SingleRun(symbol, fetch) ==
    LET stock_data == get_complete_data(symbol, fetch[1], fetch[2], fetch[3])
        w == WaccStep(symbol, stock_data)
        dcf_result == DcfStep(stock_data, w, fetch[4])
    IN  [raised |-> w.raised,
         loaded |-> w.loaded,
         result |-> valuate_single_stock(symbol, stock_data, w, dcf_result)]

\* the except branch: the exception becomes the error result of the ticker
BatchResult(symbol, run) ==
    IF run.raised
    THEN [error |-> Some("valuation_failed"), symbol |-> symbol]
    ELSE run.result

\* a loop without the try: the first exception ends the batch
valuate_multiple_stocks_uncaught(symbols, runs) ==
    LET firstRaise == IF \E i \in 1..Len(symbols) : runs[i].raised
                      THEN CHOOSE i \in 1..Len(symbols) :
                               /\ runs[i].raised
                               /\ \A j \in 1..(i - 1) : ~runs[j].raised
                      ELSE Len(symbols) + 1
    IN  [i \in 1..(firstRaise - 1) |-> runs[i].result]

valuate_multiple_stocks(symbols, runs) ==
    [i \in 1..Len(symbols) |-> BatchResult(symbols[i], runs[i])]

\* ---- the inputs of the DCF engine ----
FcfInputs == {10000, 20000, 0, -10000}
GrowthInputs == {None, Some(1000), Some(250), Some(0), Some(-500),
                 Some(-10000), Some(-15000)}
SharesInputs == {10, 20}
PriceInputs == {500, 2000}
WaccInputs == {200, 250, 892, 1200}
FsolveResults == {-9500, -9000, 800, 1000, 1500, 50000, 60000}

StockDataInputs ==
    {[error |-> Some("fetch"), symbol |-> <<"A","A">>, sector |-> None,
      industry |-> None, latest_fcf |-> None, growth_rate |-> None,
      shares_outstanding |-> None, current_price |-> None]}
    \cup
    {[error |-> None, symbol |-> <<"A","A">>, sector |-> None,
      industry |-> None, latest_fcf |-> Some(f), growth_rate |-> gr,
      shares_outstanding |-> Some(sh), current_price |-> Some(p)] :
        f \in FcfInputs, gr \in GrowthInputs, sh \in SharesInputs,
        p \in PriceInputs}
    \cup
    {[error |-> None, symbol |-> <<"A","A">>, sector |-> None,
      industry |-> None, latest_fcf |-> Some(10000), growth_rate |-> gr,
      shares_outstanding |-> Some(z[1]), current_price |-> Some(z[2])] :
        gr \in {None, Some(250)}, z \in {<<0, 500>>, <<10, 0>>, <<0, 0>>}}

\* what yfinance returned for one ticker of a batch:
\* <<stock_info, latest_fcf, shares_outstanding, fsolve_result>>
BatchFetches ==
    {<<None, None, None, 1000>>} \cup
    {<<Some([sector |-> h[2], industry |-> h[1], current_price |-> 500]),
       Some(10000), Some(10), 1000>> :
        h \in {<<None, None>>, <<sZinc, None>>, <<sBlank, None>>}}

\* the stock data whose DCF results are evaluated
EvaluationInputs ==
    {sd \in StockDataInputs :
        sd.error # None \/ (sd.growth_rate = Some(250) /\ sd.shares_outstanding = Some(10))}

\* the base rates of a sensitivity analysis: the rates above and the lowest
\* one whose lower scenario is not above the perpetual growth rate
SensitivityWaccs == WaccInputs \cup {PERPETUAL_GROWTH_RATE + WaccRange}

StockInfoInputs ==
    {None} \cup
    {Some([sector |-> h[2], industry |-> h[1], current_price |-> p]) :
        h \in {<<None, None>>, <<sZinc, None>>, <<sBlank, None>>},
        p \in PriceInputs}

\* ---- the DCF engine as a state machine: the cache was never built ----
InitDCF ==
    /\ pc = "dcf"
    /\ excel = None
    /\ catalog \in Tables(CatalogRows, 1)
    /\ cacheFile = MissingFile
    /\ stock_wacc_cache = <<>>
    /\ is_initialized = FALSE
    /\ mapper_initialized = FALSE
    /\ wacc_loaded = FALSE
    /\ out = NoCall

CallCalculateDcfValuation ==
    /\ pc = "dcf"
    /\ out = NoCall
    /\ \E stock_data \in StockDataInputs, wacc \in WaccInputs,
          fsolve_result \in FsolveResults, fsolve_converged \in BOOLEAN :
          \* fsolve hands back its last iterate whether or not it converged;
          \* _calculate_irr takes element [0] and never asks for the flag
          out' = [op |-> "calculate_dcf_valuation",
                  stock_data |-> stock_data,
                  wacc |-> wacc,
                  fsolve_result |-> fsolve_result,
                  fsolve_converged |-> fsolve_converged,
                  result |-> calculate_dcf_valuation(stock_data, wacc,
                                                     fsolve_result)]
    /\ UNCHANGED <<pc, excel, catalog, cacheFile, stock_wacc_cache,
                   is_initialized, mapper_initialized, wacc_loaded>>

CallValuateSingleStock ==
    /\ pc = "dcf"
    /\ out = NoCall
    /\ \E symbol \in BatchSymbols, stock_info \in StockInfoInputs,
          latest_fcf \in {None} \cup {Some(f) : f \in FcfInputs},
          shares_outstanding \in {None} \cup {Some(sh) : sh \in SharesInputs},
          fsolve_result \in FsolveResults :
          \E stock_data \in {get_complete_data(symbol, stock_info, latest_fcf,
                                               shares_outstanding)} :
          \E w \in {WaccStep(symbol, stock_data)} :
          \E dcf_result \in {DcfStep(stock_data, w, fsolve_result)} :
              /\ out' = [op |-> "valuate_single_stock",
                         symbol |-> symbol,
                         stock_data |-> stock_data,
                         raised |-> w.raised,
                         wacc |-> w.wacc,
                         result |-> valuate_single_stock(symbol, stock_data, w,
                                                         dcf_result)]
              /\ wacc_loaded' = w.loaded
    /\ UNCHANGED <<pc, excel, catalog, cacheFile, stock_wacc_cache,
                   is_initialized, mapper_initialized>>

CallValuateMultipleStocks ==
    /\ pc = "dcf"
    /\ out = NoCall
    /\ \E symbols \in SymbolLists(MaxBatch) :
       \E fetches \in [1..Len(symbols) -> BatchFetches] :
       \E runs \in {[i \in 1..Len(symbols) |->
                        SingleRun(symbols[i], fetches[i])]} :
           /\ out' = [op |-> "valuate_multiple_stocks",
                      symbols |-> symbols,
                      fetches |-> fetches,
                      raised |-> [i \in 1..Len(symbols) |-> runs[i].raised],
                      result |-> valuate_multiple_stocks(symbols, runs)]
           /\ wacc_loaded' = (wacc_loaded \/
                                \E i \in 1..Len(symbols) : runs[i].loaded)
    /\ UNCHANGED <<pc, excel, catalog, cacheFile, stock_wacc_cache,
                   is_initialized, mapper_initialized>>

\* evaluate_valuation on what calculate_dcf_valuation returned
CallEvaluateValuation ==
    /\ pc = "dcf"
    /\ out = NoCall
    /\ \E stock_data \in EvaluationInputs, wacc \in WaccInputs,
          fsolve_result \in FsolveResults :
          \E dcf_result \in {calculate_dcf_valuation(stock_data, wacc,
                                                      fsolve_result)} :
              out' = [op |-> "evaluate_valuation",
                      error |-> dcf_result.error,
                      irr |-> IF dcf_result.error = None
                              THEN dcf_result.irr ELSE None,
                      result |-> evaluate_valuation(dcf_result)]
    /\ UNCHANGED <<pc, excel, catalog, cacheFile, stock_wacc_cache,
                   is_initialized, mapper_initialized, wacc_loaded>>

CallCreateSensitivityAnalysis ==
    /\ pc = "dcf"
    /\ out = NoCall
    /\ \E stock_data \in StockDataInputs, base_wacc \in SensitivityWaccs,
          fsolve_result \in FsolveResults :
          \E r \in {create_sensitivity_analysis(stock_data, base_wacc,
                                                 fsolve_result)} :
              out' = [op |-> "create_sensitivity_analysis",
                      stock_data |-> stock_data,
                      base_wacc |-> base_wacc,
                      raised |-> r.raised,
                      result |-> r.result,
                      stock_data_after |-> r.stock_data]
    /\ UNCHANGED <<pc, excel, catalog, cacheFile, stock_wacc_cache,
                   is_initialized, mapper_initialized, wacc_loaded>>

ReturnDCF ==
    /\ pc = "dcf"
    /\ out # NoCall
    /\ out' = NoCall
    /\ UNCHANGED <<pc, excel, catalog, cacheFile, stock_wacc_cache,
                   is_initialized, mapper_initialized, wacc_loaded>>

NextDCF ==
    \/ CallCalculateDcfValuation
    \/ CallValuateSingleStock
    \/ CallValuateMultipleStocks
    \/ CallEvaluateValuation
    \/ CallCreateSensitivityAnalysis
    \/ ReturnDCF

SpecDCF == InitDCF /\ [][NextDCF]_vars

(***************************************************************************)
(* The save step of _preprocess_data write by write, with crashes of the   *)
(* process and a second process working on the same cache directory.      *)
(* Here pc holds the position of either process:                          *)
(*   main : start, init_index, init_quick_index, idle, rebuild_index,     *)
(*          rebuild_quick_index, crashed                                   *)
(*   other: none, index, quick_index, idle                                 *)
(* In the positions *index the process has stock_wacc.json.gz open for     *)
(* writing; in the positions *quick_index it has closed it and has not yet *)
(* written quick_index.json.                                               *)
(***************************************************************************)
\* gzip.open(path, 'wt') truncates the file in place; the file stays an
\* incomplete gzip stream until the writer closes it.  "raced" is the same
\* file while or after two processes wrote to it at once.
OpenedFile(file, raced) ==
    [state |-> IF raced THEN "raced" ELSE "partial", data |-> <<>>,
     quick_index |-> file.quick_index]

\* the outcomes of closing the index file: a complete stream, except that
\* bytes written by two processes at once may or may not form one
ClosedFiles(file, mapping, otherWriting) ==
    IF otherWriting THEN {file}
    ELSE IF file.state = "raced"
    THEN {[file EXCEPT !.state = "valid", !.data = JsonDump(mapping)],
          [file EXCEPT !.state = "partial"]}
    ELSE {[file EXCEPT !.state = "valid", !.data = JsonDump(mapping)]}

\* with open(self.quick_index_file, 'w') ...: json.dump(quick_index, f)
QuickIndexWritten(file, mapping) ==
    [file EXCEPT !.quick_index = Some(QuickIndex(mapping))]

\* _load_from_cache on the file as it is now: the index, or None when the
\* file is missing or json.load / gzip raised
load_from_cache(file) ==
    IF file.state = "valid" THEN Some(JsonLoad(file.data)) ELSE None

\* the cache an earlier run saved from earlier source tables
PreviousIndex ==
    MapRows(<<[ticker |-> <<"N","Y","S","E",":","A","A">>, industry |-> sBank,
               country |-> "United States"]>>,
            WaccLookup(<<[industry |-> sSteel, region |-> "US", wacc |-> 700]>>))

\* a cache directory left by a release with another cache_version
LegacyIndex ==
    <<<<(<<"A","A">>), [wacc |-> 1100, industry |-> sSteel,
                        country |-> "United States", region |-> "US",
                        exchange |-> <<"N","Y","S","E">>,
                        wacc_source |-> <<"legacy">>]>>>>

StaleFile ==
    [state |-> "valid", data |-> JsonDump(LegacyIndex),
     quick_index |-> Some([total_stocks |-> Len(LegacyIndex),
                           cache_version |-> "1.0"])]

SaveQuerySymbols == {<<"A","A">>, <<"a","a">>}

InitSave ==
    /\ pc = [main |-> "start", other |-> "none"]
    /\ excel \in {None} \cup {Some(t) : t \in Tables(ReferenceRows, 1)}
    /\ catalog \in Tables(CatalogRows, 1)
    /\ cacheFile \in {MissingFile, CorruptFile, ValidFile(PreviousIndex),
                      StaleFile}
    /\ stock_wacc_cache = <<>>
    /\ is_initialized = FALSE
    /\ mapper_initialized = FALSE
    /\ wacc_loaded = FALSE
    /\ out = NoCall

\* a failed load is followed by no build at all
StartLoadNoBuild ==
    /\ pc.main = "start"
    /\ pc' = [pc EXCEPT !.main = "idle"]
    /\ \E loaded \in {load_from_cache(cacheFile)} :
          /\ stock_wacc_cache' = IF loaded # None THEN loaded[1] ELSE <<>>
          /\ is_initialized' = (loaded # None)
          /\ mapper_initialized' = (loaded # None)
    /\ UNCHANGED <<excel, catalog, cacheFile, wacc_loaded, out>>

\* _initialize up to the point where the index file is opened for writing:
\* _load_from_cache, and after a failed load _preprocess_data up to line 227
StartLoad ==
    /\ pc.main = "start"
    /\ \E loaded \in {load_from_cache(cacheFile)} :
          IF loaded # None
          THEN /\ stock_wacc_cache' = loaded[1]
               /\ is_initialized' = TRUE
               /\ mapper_initialized' = TRUE
               /\ pc' = [pc EXCEPT !.main = "idle"]
               /\ UNCHANGED cacheFile
          ELSE IF PreprocessOk
          THEN /\ cacheFile' = OpenedFile(cacheFile, pc.other = "index")
               /\ pc' = [pc EXCEPT !.main = "init_index"]
               /\ UNCHANGED <<stock_wacc_cache, is_initialized,
                              mapper_initialized>>
          ELSE /\ pc' = [pc EXCEPT !.main = "idle"]
               /\ UNCHANGED <<stock_wacc_cache, is_initialized,
                              mapper_initialized, cacheFile>>
    /\ UNCHANGED <<excel, catalog, wacc_loaded, out>>

\* rebuild_cache up to the point where the index file is opened for writing
BeginRebuild ==
    /\ pc.main = "idle"
    /\ PreprocessOk
    /\ cacheFile' = OpenedFile(cacheFile, pc.other = "index")
    /\ pc' = [pc EXCEPT !.main = "rebuild_index"]
    /\ UNCHANGED <<excel, catalog, stock_wacc_cache, is_initialized,
                   mapper_initialized, wacc_loaded, out>>

\* the files an exception inside the try of _preprocess_data leaves behind:
\* raised before the index file was opened, while it was being written, or
\* after it was closed and before quick_index.json was written
FailedSaveFiles(file, mapping, otherWriting) ==
    {file, OpenedFile(file, otherWriting)}
    \cup ClosedFiles(OpenedFile(file, otherWriting), mapping, otherWriting)

\* an assignment of the new mapping ahead of the two writes
IndexAssignedBeforeSave(index, stock_wacc_mapping) == stock_wacc_mapping

\* the in-memory index when _preprocess_data returns False: line 243 is the
\* only assignment and comes after the last statement that can raise
IndexAfterFailure(index, stock_wacc_mapping) == index

\* rebuild_cache returns False: indname.xls or the WACC data is missing
\* (lines 67-69, 136-138), or a statement inside the try raised and the
\* except of line 250 caught it
RebuildFails ==
    /\ pc.main = "idle"
    /\ out = NoCall
    /\ IF PreprocessOk
       THEN /\ cacheFile' \in FailedSaveFiles(cacheFile, PreprocessMapping,
                                              pc.other = "index")
            /\ stock_wacc_cache' = IndexAfterFailure(stock_wacc_cache,
                                                     PreprocessMapping)
            /\ out' = [op |-> "rebuild_cache", raised |-> TRUE,
                       result |-> FALSE]
       ELSE /\ UNCHANGED <<cacheFile, stock_wacc_cache>>
            /\ out' = [op |-> "rebuild_cache", raised |-> FALSE,
                       result |-> FALSE]
    /\ UNCHANGED <<pc, excel, catalog, is_initialized, mapper_initialized,
                   wacc_loaded>>

\* the with block of line 227 ends: the index file is closed
CloseIndex ==
    /\ pc.main \in {"init_index", "rebuild_index"}
    /\ cacheFile' \in ClosedFiles(cacheFile, PreprocessMapping,
                                  pc.other = "index")
    /\ pc' = [pc EXCEPT !.main = IF pc.main = "init_index"
                                 THEN "init_quick_index"
                                 ELSE "rebuild_quick_index"]
    /\ UNCHANGED <<excel, catalog, stock_wacc_cache, is_initialized,
                   mapper_initialized, wacc_loaded, out>>

\* quick_index.json is written, the mapping becomes the in-memory index and
\* _preprocess_data returns True to _initialize or to rebuild_cache
FinishSave ==
    /\ pc.main \in {"init_quick_index", "rebuild_quick_index"}
    /\ cacheFile' = QuickIndexWritten(cacheFile, PreprocessMapping)
    /\ stock_wacc_cache' = PreprocessMapping
    /\ is_initialized' = (is_initialized \/ pc.main = "init_quick_index")
    /\ mapper_initialized' = TRUE
    /\ pc' = [pc EXCEPT !.main = "idle"]
    /\ UNCHANGED <<excel, catalog, wacc_loaded, out>>

\* the process dies: its memory is gone, the files stay as they are
Crash ==
    /\ pc.main # "crashed"
    /\ pc' = [pc EXCEPT !.main = "crashed"]
    /\ stock_wacc_cache' = <<>>
    /\ is_initialized' = FALSE
    /\ mapper_initialized' = FALSE
    /\ wacc_loaded' = FALSE
    /\ out' = NoCall
    /\ UNCHANGED <<excel, catalog, cacheFile>>

Restart ==
    /\ pc.main = "crashed"
    /\ pc' = [pc EXCEPT !.main = "start"]
    /\ UNCHANGED <<excel, catalog, cacheFile, stock_wacc_cache,
                   is_initialized, mapper_initialized, wacc_loaded, out>>

\* a query of another thread of the process, also while a rebuild is running
QueryDuringSave ==
    /\ pc.main \in {"idle", "rebuild_index", "rebuild_quick_index"}
    /\ out = NoCall
    /\ \E symbol \in SaveQuerySymbols :
          out' = [op |-> "get_stock_wacc", symbol |-> symbol,
                  result |-> get_stock_wacc(symbol)]
    /\ UNCHANGED <<pc, excel, catalog, cacheFile, stock_wacc_cache,
                   is_initialized, mapper_initialized, wacc_loaded>>

\* another process imports turbo_cache: its _load_from_cache, and after a
\* failed load its own _preprocess_data up to line 227
OtherStart ==
    /\ pc.other = "none"
    /\ out = NoCall
    /\ \E loaded \in {load_from_cache(cacheFile)} :
          /\ out' = [op |-> "load", seen |-> cacheFile.state,
                     result |-> loaded]
          /\ IF loaded = None /\ PreprocessOk
             THEN /\ cacheFile' = OpenedFile(cacheFile,
                                      pc.main \in {"init_index", "rebuild_index"})
                  /\ pc' = [pc EXCEPT !.other = "index"]
             ELSE /\ pc' = [pc EXCEPT !.other = "idle"]
                  /\ UNCHANGED cacheFile
    /\ UNCHANGED <<excel, catalog, stock_wacc_cache, is_initialized,
                   mapper_initialized, wacc_loaded>>

OtherCloseIndex ==
    /\ pc.other = "index"
    /\ cacheFile' \in ClosedFiles(cacheFile, PreprocessMapping,
                                  pc.main \in {"init_index", "rebuild_index"})
    /\ pc' = [pc EXCEPT !.other = "quick_index"]
    /\ UNCHANGED <<excel, catalog, stock_wacc_cache, is_initialized,
                   mapper_initialized, wacc_loaded, out>>

OtherFinishSave ==
    /\ pc.other = "quick_index"
    /\ cacheFile' = QuickIndexWritten(cacheFile, PreprocessMapping)
    /\ pc' = [pc EXCEPT !.other = "idle"]
    /\ UNCHANGED <<excel, catalog, stock_wacc_cache, is_initialized,
                   mapper_initialized, wacc_loaded, out>>

\* the other process ends
OtherExit ==
    /\ pc.other = "idle"
    /\ pc' = [pc EXCEPT !.other = "none"]
    /\ UNCHANGED <<excel, catalog, cacheFile, stock_wacc_cache,
                   is_initialized, mapper_initialized, wacc_loaded, out>>

ReturnSave ==
    /\ out # NoCall
    /\ out' = NoCall
    /\ UNCHANGED <<pc, excel, catalog, cacheFile, stock_wacc_cache,
                   is_initialized, mapper_initialized, wacc_loaded>>

NextSave ==
    \/ StartLoad
    \/ BeginRebuild
    \/ RebuildFails
    \/ CloseIndex
    \/ FinishSave
    \/ Crash
    \/ Restart
    \/ QueryDuringSave
    \/ OtherStart
    \/ OtherCloseIndex
    \/ OtherFinishSave
    \/ OtherExit
    \/ ReturnSave

SpecSave == InitSave /\ [][NextSave]_vars

(***************************************************************************)
(* The index build on its own: a start without a cache file, over          *)
(* reference tables with colliding symbols and blank industries and over   *)
(* catalogs with labels that coincide after case-folding.                  *)
(***************************************************************************)
sSTEEL == <<"S","T","E","E","L">>

BuildCatalogRows == {
    [industry |-> sSteel, region |-> "US", wacc |-> 700],
    [industry |-> sSTEEL, region |-> "US", wacc |-> 800],
    [industry |-> sSteelMills, region |-> "China", wacc |-> 900],
    [industry |-> sSteelMills, region |-> "US", wacc |-> 750],
    [industry |-> sSteel, region |-> "Japan", wacc |-> 600] }

BuildRows == {
    [ticker |-> <<"N","Y","S","E",":","A","A">>, industry |-> sSteel,
     country |-> "United States"],
    [ticker |-> <<"N","A","S","D","A","Q",":","A","A">>, industry |-> sSte,
     country |-> "Hong Kong"],
    [ticker |-> <<"B","B">>, industry |-> sBlank, country |-> "United States"],
    [ticker |-> <<"S","E","H","K",":","B","B">>, industry |-> sBlank,
     country |-> "Hong Kong"] }

\* raw Exchange:Ticker values
TickerInputs == {
    <<"N","A","S","D","A","Q",":","A","A","P","L">>,
    <<"S","Z","S","E",":","0","0","0","0","0","1">>,
    <<"S","E","H","K",":","A","A">>,
    <<"A","A","P","L">>,
    <<"X","X",":","A","B">>,
    <<"N","Y","S","E",":","A",":","B">>,
    NaN }

InitBuild ==
    /\ pc = "start"
    /\ excel \in {Some(t) : t \in Tables(BuildRows, MaxRows)}
    /\ catalog \in Tables(BuildCatalogRows, MaxCatalog)
    /\ cacheFile = MissingFile
    /\ stock_wacc_cache = <<>>
    /\ is_initialized = FALSE
    /\ mapper_initialized = FALSE
    /\ wacc_loaded = FALSE
    /\ out = NoCall

\* process_exchange_ticker applied to one value of the column Exchange:Ticker
NormalizeTicker ==
    /\ pc = "ready"
    /\ out = NoCall
    /\ \E exchange_ticker \in TickerInputs :
          out' = [op |-> "process_exchange_ticker",
                  exchange_ticker |-> exchange_ticker,
                  result |-> process_exchange_ticker(exchange_ticker)]
    /\ UNCHANGED <<pc, excel, catalog, cacheFile, stock_wacc_cache,
                   is_initialized, mapper_initialized, wacc_loaded>>

\* steps 1 to 4 of the row loop for the label and region of an ingested
\* catalog record
LookupExact ==
    /\ pc = "ready"
    /\ out = NoCall
    /\ \E i \in DOMAIN catalog :
          out' = [op |-> "lookup_exact",
                  position |-> i,
                  record |-> catalog[i],
                  result |-> ResolveWacc(WaccLookup(catalog),
                                         Strip(Lower(catalog[i].industry)),
                                         catalog[i].region)]
    /\ UNCHANGED <<pc, excel, catalog, cacheFile, stock_wacc_cache,
                   is_initialized, mapper_initialized, wacc_loaded>>

NextBuild ==
    \/ Initialize
    \/ NormalizeTicker
    \/ LookupExact
    \/ Return

SpecBuild == InitBuild /\ [][NextBuild]_vars

(***************************************************************************)
(* Properties                                                              *)
(***************************************************************************)
IsForStock == out.op = "get_wacc_for_stock"

\* the hint get_wacc_for_stock works with: the industry, else the sector
HintOf(o) == IF o.industry # <<>> THEN o.industry ELSE o.sector

\* the symbol of the pending call has no entry in the cache, whatever the case
AbsentFromIndex(symbol) ==
    \A i \in DOMAIN stock_wacc_cache :
        Lower(stock_wacc_cache[i][1]) # Lower(Strip(symbol))

\* catalog rows related to a hint in any way: either contains the other
RelatedRows(hint) ==
    {c \in DOMAIN catalog :
        \/ Contains(Lower(catalog[c].industry), Lower(hint))
        \/ Contains(Lower(hint), Lower(catalog[c].industry))}

UsRows == {c \in DOMAIN catalog : catalog[c].region = "US"}

\* C1: every call of get_wacc_for_stock returns a triple whose wacc is a number,
\* and no call raises, whatever the symbol, the hints and the cache state.
C1_ReturnsWaccNeverRaises ==
    IsForStock => (~ out.raised /\ out.wacc # None)

\* C2: a symbol that is not in the index, with hints that match no catalog
\* entry, resolves to wacc 0.12 (the build's default) with source Default.
C2_UnresolvableIsBuildDefault ==
    (/\ IsForStock
     /\ AbsentFromIndex(out.symbol)
     /\ RelatedRows(out.industry) = {}
     /\ RelatedRows(out.sector) = {})
    => (/\ ~ out.raised
        /\ out.wacc = Some(BuildDefaultWacc)
        /\ out.source = <<"default">>)

\* C7: for a symbol absent from the index and a hint, the wacc is the US catalog
\* value of the exact match when there is one; it comes from the US catalog or is
\* the build's default constant, and without any US row it is that constant,
\* tagged Default.
C7_FallbackIsUsCatalogOrDefault ==
    (IsForStock /\ AbsentFromIndex(out.symbol) /\ HintOf(out) # <<>>)
    => LET exact == {c \in UsRows : catalog[c].industry = HintOf(out)}
       IN  /\ ~ out.raised
           /\ exact # {} => \E c \in exact : out.wacc = Some(catalog[c].wacc)
           /\ \/ \E c \in UsRows : out.wacc = Some(catalog[c].wacc)
              \/ out.wacc = Some(BuildDefaultWacc)
           /\ UsRows = {} => (/\ out.wacc = Some(BuildDefaultWacc)
                              /\ out.source = <<"default">>)

\* C8: for a symbol stored in the index, get_wacc_for_stock returns the entry's
\* wacc, the source tag recorded for the entry at build time, and its industry.
C8_ReturnsStoredEntry ==
    (IsForStock /\ DictHas(stock_wacc_cache, out.symbol))
    => LET e == DictGet(stock_wacc_cache, out.symbol)
       IN  /\ out.wacc = Some(e.wacc)
           /\ out.source = e.wacc_source
           /\ out.label = e.industry

\* C9: get_stock_wacc returns the entry of the exact key when there is one, else
\* the entry of a key equal to the symbol ignoring case, else absent (the symbol
\* is taken as the lookup trims it).
C9_ExactKeyThenIgnoringCase ==
    out.op = "get_stock_wacc"
    => LET sym == Strip(out.symbol)
           same == {i \in DOMAIN stock_wacc_cache :
                       Lower(stock_wacc_cache[i][1]) = Lower(sym)}
       IN  IF DictHas(stock_wacc_cache, sym)
           THEN out.result = Some(DictGet(stock_wacc_cache, sym))
           ELSE IF same # {}
           THEN \E i \in same : out.result = Some(stock_wacc_cache[i][2])
           ELSE out.result = None

\* C10: batch_get_wacc gives every symbol of the list the wacc that
\* get_wacc_direct returns for it.
C10_BatchEqualsDirect ==
    out.op = "batch_get_wacc"
    => \A i \in DOMAIN out.symbols :
          /\ DictHas(out.result, out.symbols[i])
          /\ DictGet(out.result, out.symbols[i]) = get_wacc_direct(out.symbols[i])

\* the normalised label of a catalog row, as the build keys it
NormLabel(c) == Strip(Lower(catalog[c].industry))

\* catalog rows of a region whose normalised label is the query
ExactRows(q, region) ==
    {c \in DOMAIN catalog : catalog[c].region = region /\ NormLabel(c) = q}

\* catalog rows of a region whose normalised label contains the whole query
ContainingRows(q, region) ==
    {c \in DOMAIN catalog :
        catalog[c].region = region /\ Contains(NormLabel(c), q)}

\* the value the lookup table holds for the label of row c: its last duplicate
StoredValue(c) ==
    LET dup == ExactRows(NormLabel(c), catalog[c].region)
    IN  catalog[CHOOSE d \in dup : \A e \in dup : d >= e].wacc

\* the tier that serves a query of a region, by the order of the cascade
TierOf(q, region) ==
    IF ExactRows(q, region) # {} THEN 1
    ELSE IF ContainingRows(q, region) # {} THEN 2
    ELSE IF region # "US" /\ ExactRows(q, "US") # {} THEN 3
    ELSE IF region # "US" /\ ContainingRows(q, "US") # {} THEN 4
    ELSE 5

\* C5: every entry the build stores is served by the first tier that succeeds in
\* the order exact own region, fuzzy own region, exact US, fuzzy US, default
\* 0.12, is tagged with that tier, and holds a value of that tier's rows.
C5_CascadeOrderAndTags ==
    \A i \in DOMAIN stock_wacc_cache :
        LET e == stock_wacc_cache[i][2]
            q == Strip(Lower(e.industry))
            tier == TierOf(q, e.region)
        IN  /\ tier = 1 => /\ e.wacc_source = <<e.region, "exact">>
                           /\ \E c \in ExactRows(q, e.region) :
                                  e.wacc = catalog[c].wacc
            /\ tier = 2 => /\ e.wacc_source = <<e.region, "fuzzy">>
                           /\ \E c \in ContainingRows(q, e.region) :
                                  e.wacc = catalog[c].wacc
            /\ tier = 3 => /\ e.wacc_source = <<"us_fallback">>
                           /\ \E c \in ExactRows(q, "US") :
                                  e.wacc = catalog[c].wacc
            /\ tier = 4 => /\ e.wacc_source = <<"us_fuzzy_fallback">>
                           /\ \E c \in ContainingRows(q, "US") :
                                  e.wacc = catalog[c].wacc
            /\ tier = 5 => /\ e.wacc_source = <<"default">>
                           /\ e.wacc = BuildDefaultWacc

\* an entry of a non-US region whose own region also has a fuzzy match was
\* built while the US table holds an exact match for it
C5_Witness ==
    \E i \in DOMAIN stock_wacc_cache :
        LET e == stock_wacc_cache[i][2]
            q == Strip(Lower(e.industry))
        IN  /\ e.region # "US"
            /\ TierOf(q, e.region) = 2
            /\ ExactRows(q, "US") # {}

\* rows the stated rule would accept: the label contains the first token of
\* the query, or the query contains the label
FirstTokenRows(q, region) ==
    {c \in DOMAIN catalog :
        /\ catalog[c].region = region
        /\ \/ Split(q) # <<>> /\ Contains(NormLabel(c), Split(q)[1])
           \/ Contains(q, NormLabel(c))}

FirstContaining(q, region) ==
    LET rows == ContainingRows(q, region)
    IN  StoredValue(CHOOSE c \in rows : \A d \in rows : c <= d)

ValidDcfInput(stock_data, wacc) ==
    /\ stock_data.error = None
    /\ stock_data.latest_fcf # None /\ stock_data.latest_fcf[1] > 0
    /\ stock_data.shares_outstanding # None
    /\ stock_data.shares_outstanding[1] > 0
    /\ stock_data.current_price # None /\ stock_data.current_price[1] > 0
    /\ wacc > PERPETUAL_GROWTH_RATE

\* C3: an input with latest_fcf, shares_outstanding, current_price and the
\* symbol, all positive, and wacc above the perpetual growth rate, gets a
\* result with an intrinsic value from calculate_dcf_valuation, and
\* valuate_single_stock gets one for the data get_complete_data supplies.
C3_ValidInputGetsResult ==
    /\ (out.op = "calculate_dcf_valuation"
        /\ ValidDcfInput(out.stock_data, out.wacc))
       => out.result.error = None
    /\ (out.op = "valuate_single_stock" /\ out.wacc # None
        /\ ValidDcfInput(out.stock_data, out.wacc[1]))
       => out.result.error = None

IsFloorOf(x, y, num, den) == den * x <= y * num /\ y * num < den * (x + 1)

C11_OneResultPerTickerInOrder ==
    out.op = "valuate_multiple_stocks" =>
        /\ Len(out.result) = Len(out.symbols)
        /\ \A i \in 1..Len(out.symbols) :
               /\ out.result[i].symbol = out.symbols[i]
               /\ (out.raised[i] \/ out.fetches[i][1] = None)
                      => out.result[i].error # None

\* a batch that asks twice for the same ticker, whose first valuation raised
\* and whose second one ran after it
C11_Witness ==
    /\ out.op = "valuate_multiple_stocks"
    /\ Len(out.symbols) = 2
    /\ out.symbols[1] = out.symbols[2]
    /\ out.raised[1]
    /\ ~out.raised[2]
    /\ Len(out.result) = 2

\* ---- C12 ----
\* the symbols of the rows the build takes into the index
IndexedSymbols ==
    {process_exchange_ticker(excel[1][i].ticker) : i \in DOMAIN excel[1]}
        \ {NaN}

\* C12: when the cache file is missing or cannot be read, initialization
\* treats the load as a miss and runs the build: nothing is raised, the
\* in-memory index stays empty until the build has finished (never partly
\* filled), and a successful build leaves the cache initialized with the
\* complete index built from the source tables.
C12_FailedLoadRunsBuild ==
    [][/\ (/\ pc.main = "start"
           /\ cacheFile.state # "valid"
           /\ pc'.main \notin {"start", "crashed"})
          => /\ stock_wacc_cache' = <<>>
             /\ ~is_initialized'
             /\ pc'.main = IF PreprocessOk THEN "init_index" ELSE "idle"
       /\ (/\ pc.main \in {"init_index", "init_quick_index"}
           /\ pc'.main # "crashed")
          => IF pc'.main = "idle"
             THEN /\ is_initialized'
                  /\ stock_wacc_cache' = PreprocessMapping
                  /\ DictKeys(stock_wacc_cache') = IndexedSymbols
             ELSE /\ stock_wacc_cache' = <<>>
                  /\ ~is_initialized']_vars

\* a start that found no readable cache file has built a non-empty index and
\* is about to finish its save: the in-memory index is still empty
C12_Witness ==
    /\ pc.main = "init_quick_index"
    /\ cacheFile.state = "valid"
    /\ cacheFile.quick_index = None
    /\ PreprocessMapping # <<>>
    /\ stock_wacc_cache = <<>>

\* ---- C13 ----
\* C13: a cache whose quick_index.json carries another cache_version than
\* the one this code writes is rejected by the load of a starting process:
\* nothing of it becomes the in-memory index, the start goes on to the build.
C13_VersionMismatchRejected ==
    [][(/\ pc.main = "start"
        /\ pc'.main \notin {"start", "crashed"}
        /\ cacheFile.state = "valid"
        /\ cacheFile.quick_index # None
        /\ cacheFile.quick_index[1].cache_version # CacheVersion)
       => /\ stock_wacc_cache' = <<>>
          /\ ~is_initialized'
          /\ pc'.main = IF PreprocessOk THEN "init_index" ELSE "idle"]_vars

\* ---- C14 ----
\* the writers of the index file
MainWriting == pc.main \in {"init_index", "rebuild_index"}
OtherWriting == pc.other = "index"

\* C14: after a crash of the process at any point of its save, a cache that
\* had been saved completely before (its quick_index.json exists) is still
\* one that loads completely, and quick_index.json describes it.
C14_CrashKeepsPreviousCache ==
    (pc.main = "crashed" /\ cacheFile.quick_index # None)
        => /\ load_from_cache(cacheFile) # None
           /\ cacheFile.quick_index[1].total_stocks = Len(cacheFile.data)

\* ---- C15 ----
\* C15: rebuilds are serialized (never two processes writing the index file
\* at once) and no load of the file by another process meets a file that is
\* being written or was left half written.
C15_SerializedAndNeverHalfWritten ==
    /\ ~(MainWriting /\ OtherWriting)
    /\ out.op = "load" => out.seen \notin {"partial", "raced"}

C16_RebuildMakesIndexServed ==
    (out.op = "rebuild_cache" /\ out.result)
        => /\ stock_wacc_cache = PreprocessMapping
           /\ \A i \in DOMAIN stock_wacc_cache :
                 LET symbol == stock_wacc_cache[i][1]
                     entry == stock_wacc_cache[i][2]
                 IN  /\ get_stock_wacc(symbol) = Some(entry)
                     /\ entry.wacc # 0 => get_wacc_direct(symbol) = entry.wacc

\* ---- C18 ----
\* the fields a DCF input carries: no fetch error, and the latest free cash
\* flow, the share count and the price
IsDcfInput(stock_data) ==
    /\ stock_data.error = None
    /\ stock_data.latest_fcf # None
    /\ stock_data.shares_outstanding # None
    /\ stock_data.current_price # None

\* C18: calculate_dcf_valuation answers every input whose latest_fcf is not
\* positive with the invalid-FCF error and every input with positive
\* latest_fcf whose wacc is not above the perpetual growth rate with the
\* discount-rate-too-low error; either result carries the error alone and no
\* valuation field.
C18_PreconditionErrors ==
    (out.op = "calculate_dcf_valuation" /\ IsDcfInput(out.stock_data))
        => /\ out.stock_data.latest_fcf[1] <= 0
                => out.result = DcfError("negative_fcf")
           /\ (/\ out.stock_data.latest_fcf[1] > 0
               /\ out.wacc <= PERPETUAL_GROWTH_RATE)
                => out.result = DcfError("wacc_too_low")

\* ---- C19 ----
\* C19 as stated: every result returned for latest_fcf > 0 and wacc > g has a
\* positive enterprise value and a positive value per share, whatever the
\* other fields of the input are.
C19_PositiveValueForAnyInput ==
    (/\ out.op = "calculate_dcf_valuation"
     /\ out.result.error = None
     /\ out.stock_data.latest_fcf[1] > 0
     /\ out.wacc > PERPETUAL_GROWTH_RATE)
        => /\ out.result.enterprise_value > 0
           /\ out.result.intrinsic_value > 0

\* C19 amended: every result returned for latest_fcf > 0, wacc > g and a
\* growth_rate above -100% has only positive projected cash flows, a positive
\* terminal value, a positive enterprise value and a positive value per
\* share.
C19_PositiveValueAboveTotalDecline ==
    (/\ out.op = "calculate_dcf_valuation"
     /\ out.result.error = None
     /\ out.stock_data.latest_fcf[1] > 0
     /\ out.wacc > PERPETUAL_GROWTH_RATE
     /\ out.stock_data.growth_rate[1] > -RateUnit)
        => /\ \A t \in 1..FORECAST_YEARS : out.result.future_fcf[t] > 0
           /\ out.result.terminal_value > 0
           /\ out.result.enterprise_value > 0
           /\ out.result.intrinsic_value > 0

\* a result for a shrinking, not vanishing, cash flow
C19_Witness ==
    /\ out.op = "calculate_dcf_valuation"
    /\ out.result.error = None
    /\ out.stock_data.growth_rate = Some(-500)
    /\ out.wacc = 892
    /\ out.result.enterprise_value > 0
    /\ out.result.intrinsic_value > 0

C21_NonConvergedIsNull ==
    (/\ out.op = "calculate_dcf_valuation"
     /\ out.result.error = None
     /\ ~out.fsolve_converged)
        => out.result.irr = None

\* ---- C22 ----
\* the verdict by the thresholds: below 0.10, from 0.10 and below 0.15, from 0.15
ThresholdVerdict(irr) ==
    IF irr < OvervaluedBelow THEN "overvalued"
    ELSE IF irr >= OvervaluedBelow /\ irr < FairBelow THEN "fair"
    ELSE "undervalued"

FullResultFields ==
    {"error", "symbol", "current_price", "intrinsic_value", "upside_downside",
     "irr", "wacc", "growth_rate", "latest_fcf", "enterprise_value",
     "terminal_value", "pv_terminal", "future_fcf", "pv_fcf",
     "shares_outstanding", "forecast_years", "perpetual_growth_rate"}

\* C23: no core operation ends in a fatal error.  calculate_dcf_valuation
\* returns, for every input (missing fields, zero shares and a zero price
\* included), an error result or a full result; valuate_single_stock never
\* raises and returns a result or an error record, either with the symbol.
C23_NoFatalError ==
    /\ out.op = "calculate_dcf_valuation" =>
          IF out.result.error # None
          THEN DOMAIN out.result = {"error"}
          ELSE DOMAIN out.result = FullResultFields
    /\ out.op = "valuate_single_stock" =>
          /\ ~out.raised
          /\ out.result.symbol = out.symbol

\* ---- C24 ----
UsExchanges == {<<"N","Y","S","E">>, <<"N","A","S","D","A","Q">>,
                <<"N","a","s","d","a","q","G","M">>,
                <<"N","a","s","d","a","q","G","S">>,
                <<"N","a","s","d","a","q","C","M">>, <<"A","M","E","X">>}

HasColon(t) == \E i \in DOMAIN t : t[i] = ":"

\* C24: ticker normalization strips the Exchange: prefix and appends the
\* suffix fixed for the exchange, none for a US exchange: NASDAQ:AAPL becomes
\* AAPL and SZSE:000001 becomes 000001.SZ.  A raw value without a prefix is
\* returned as it is, and the result never starts with the exchange prefix.
C24_TickerNormalization ==
    (out.op = "process_exchange_ticker" /\ out.exchange_ticker # NaN)
        => LET t == out.exchange_ticker
               r == out.result
           IN  IF ~HasColon(t) THEN r = t
               ELSE LET exchange == SplitColon(t)[1]
                        symbol == SplitColon(t)[2]
                    IN  /\ StartsWith(r, symbol)
                        /\ ~StartsWith(r, exchange \o <<":">>)
                        /\ exchange \in UsExchanges => r = symbol
                        /\ exchange = <<"S","Z","S","E">>
                              => r = symbol \o <<".","S","Z">>
                        /\ exchange = <<"S","E","H","K">>
                              => r = symbol \o <<".","H","K">>
                        /\ t = <<"N","A","S","D","A","Q",":","A","A","P","L">>
                              => r = <<"A","A","P","L">>
                        /\ t = <<"S","Z","S","E",":","0","0","0","0","0","1">>
                              => r = <<"0","0","0","0","0","1",".","S","Z">>

\* SZSE:000001 was normalized
C24_Witness ==
    /\ out.op = "process_exchange_ticker"
    /\ out.exchange_ticker = <<"S","Z","S","E",":","0","0","0","0","0","1">>
    /\ out.result = <<"0","0","0","0","0","1",".","S","Z">>

\* ---- C25 ----
\* the index in memory is the one built from the reference table
BuiltFromTable == pc = "ready" /\ is_initialized /\ excel # None

\* C25: after a build every ticker of the reference table has exactly one
\* entry, stored under its normalized symbol and carrying the industry,
\* country and region of that ticker's own record; two distinct tickers never
\* share an entry and none is left without one.
C25_OneEntryPerReferenceTicker ==
    BuiltFromTable =>
        LET df == excel[1]
        IN  /\ Len(stock_wacc_cache) = Len(df)
            /\ \A i \in DOMAIN df :
                  LET symbol == process_exchange_ticker(df[i].ticker)
                  IN  /\ DictHas(stock_wacc_cache, symbol)
                      /\ DictGet(stock_wacc_cache, symbol).industry
                            = df[i].industry
                      /\ DictGet(stock_wacc_cache, symbol).country
                            = df[i].country
                      /\ DictGet(stock_wacc_cache, symbol).region
                            = RegionOf(df[i].country)
            /\ \A i, j \in DOMAIN df :
                  df[i].ticker # df[j].ticker
                     => process_exchange_ticker(df[i].ticker)
                            # process_exchange_ticker(df[j].ticker)

\* ---- C26 ----
\* the catalog records of the region of record i whose label coincides with
\* its label after case-folding and trimming
Coinciding(i) ==
    {j \in DOMAIN catalog :
        /\ catalog[j].region = catalog[i].region
        /\ Strip(Lower(catalog[j].industry)) = Strip(Lower(catalog[i].industry))}

LastOf(S) == CHOOSE j \in S : \A k \in S : k <= j
FirstOf(S) == CHOOSE j \in S : \A k \in S : j <= k

\* C26 as stated: the exact lookup of the industry and region of an ingested
\* record returns that record's wacc, whatever the catalog.
C26_ExactLookupReturnsOwnWacc ==
    out.op = "lookup_exact" =>
        out.result = <<out.record.wacc, <<out.record.region, "exact">>>>

\* C26 amended: the exact lookup of the industry and region of an ingested
\* record is answered by tier 1 with the wacc of the last ingested record of
\* that region whose label coincides with it after case-folding and
\* trimming: the record's own wacc when no later record coincides.
C26_ExactLookupReturnsLastCoinciding ==
    out.op = "lookup_exact" =>
        /\ out.result[2] = <<out.record.region, "exact">>
        /\ out.result[1] = catalog[LastOf(Coinciding(out.position))].wacc
        /\ Coinciding(out.position) = {out.position}
              => out.result[1] = out.record.wacc

\* the lookup of a record that a later record of its region coincides with
C26_Witness ==
    /\ out.op = "lookup_exact"
    /\ LastOf(Coinciding(out.position)) > out.position
    /\ out.result[1] = catalog[LastOf(Coinciding(out.position))].wacc
    /\ out.result[1] # out.record.wacc

\* ---- C30 ----
\* the rows with a blank industry whose entry is the one in the index
BlankRows ==
    {i \in DOMAIN excel[1] :
        /\ Strip(Lower(excel[1][i].industry)) = <<>>
        /\ \A j \in DOMAIN excel[1] :
              process_exchange_ticker(excel[1][j].ticker)
                  = process_exchange_ticker(excel[1][i].ticker) => j <= i}

RegionRecords(region) == {j \in DOMAIN catalog : catalog[j].region = region}

EntryOfRow(i) ==
    DictGet(stock_wacc_cache, process_exchange_ticker(excel[1][i].ticker))

\* what C30 says of a blank-industry row, given the WACC of the first entry
\* of its region and of the US table
BlankRowResolved(i, ownFirst, usFirst) ==
    LET region == RegionOf(excel[1][i].country)
        entry == EntryOfRow(i)
    IN  IF RegionRecords(region) # {}
        THEN /\ entry.wacc_source = <<region, "fuzzy">>
             /\ entry.wacc = ownFirst
        ELSE IF region # "US" /\ RegionRecords("US") # {}
        THEN /\ entry.wacc_source = <<"us_fuzzy_fallback">>
             /\ entry.wacc = usFirst
        ELSE /\ entry.wacc_source = <<"default">>
             /\ entry.wacc = BuildDefaultWacc

\* the WACC of the first ingested record of a region (the default when the
\* region has none)
FirstRecordWacc(region) ==
    IF RegionRecords(region) = {} THEN BuildDefaultWacc
    ELSE catalog[FirstOf(RegionRecords(region))].wacc

\* the WACC the lookup table holds for the label of that record
FirstKeyWacc(region) ==
    IF RegionRecords(region) = {} THEN BuildDefaultWacc
    ELSE catalog[LastOf(Coinciding(FirstOf(RegionRecords(region))))].wacc

\* C30 as stated: a ticker with a blank industry is matched by the fuzzy tier
\* to the first catalog entry of its region in ingestion order and stores
\* that entry's WACC; it is tagged Default only when neither its region nor,
\* for another region than US, the US table has an entry.
C30_BlankIndustryTakesFirstEntry ==
    BuiltFromTable =>
        \A i \in BlankRows :
            BlankRowResolved(i,
                             FirstRecordWacc(RegionOf(excel[1][i].country)),
                             FirstRecordWacc("US"))

\* C30 amended: such a ticker is matched by the fuzzy tier to the first label
\* of its region in ingestion order and stores the WACC the lookup table
\* holds for that label, which is the WACC of the last ingested record of the
\* region with that label up to case; the US table stands in for an empty
\* region in the same way, and Default is left for the case that neither has
\* an entry.
C30_BlankIndustryTakesFirstLabel ==
    BuiltFromTable =>
        \A i \in BlankRows :
            BlankRowResolved(i,
                             FirstKeyWacc(RegionOf(excel[1][i].country)),
                             FirstKeyWacc("US"))

\* a blank-industry ticker whose region has two labels: the fuzzy tier took
\* the first
C30_Witness ==
    /\ BuiltFromTable
    /\ \E i \in BlankRows :
          LET region == RegionOf(excel[1][i].country)
          IN  /\ Cardinality(RegionRecords(region)) = 2
              /\ FirstRecordWacc(region) # catalog[LastOf(RegionRecords(region))].wacc
              /\ EntryOfRow(i).wacc_source = <<region, "fuzzy">>
              /\ EntryOfRow(i).wacc = FirstRecordWacc(region)

(***************************************************************************)
(* C27: the intrinsic value against the discount rate.                     *)
(***************************************************************************)
\* a call of calculate_dcf_valuation that returned a full result
DcfReturnedValue ==
    /\ out.op = "calculate_dcf_valuation"
    /\ out.result.error = None

\* the discount rates above the one of the call
HigherWaccs == {w \in WaccInputs : out.op = "calculate_dcf_valuation" /\ w > out.wacc}

\* the intrinsic value of the same call at another discount rate
ValueAt(w) ==
    calculate_dcf_valuation(out.stock_data, w, out.fsolve_result).intrinsic_value

\* C27 as stated: with latest_fcf, shares outstanding and every other input
\* fixed, the intrinsic value per share that calculate_dcf_valuation returns
\* strictly decreases as wacc increases, for all wacc above the perpetual
\* growth rate.
C27_ValueDecreasesInWacc ==
    DcfReturnedValue =>
        \A w \in HigherWaccs : ValueAt(w) < out.result.intrinsic_value

\* C27 amended: the same, for a growth rate above -100 % and a positive number
\* of shares.
C27_ValueDecreasesAboveTotalDecline ==
    (/\ DcfReturnedValue
     /\ out.result.growth_rate > 0 - RateUnit
     /\ out.result.shares_outstanding > 0) =>
        \A w \in HigherWaccs : ValueAt(w) < out.result.intrinsic_value

\* a valuation at a rate that has a higher rate to compare with, for a
\* shrinking business
C27_Witness ==
    /\ DcfReturnedValue
    /\ out.result.growth_rate < 0
    /\ out.result.growth_rate > 0 - RateUnit
    /\ HigherWaccs # {}
    /\ \A w \in HigherWaccs : ValueAt(w) < out.result.intrinsic_value


(***************************************************************************)
(* C28: the sensitivity analysis.                                          *)
(***************************************************************************)
IsSensitivity == out.op = "create_sensitivity_analysis"

\* the <<wacc, growth>> pairs of the cells returned
ReturnedCells ==
    {<<out.result[1][i][2].wacc, out.result[1][i][2].growth_rate>> :
        i \in DOMAIN out.result[1]}

\* the 3 x 3 grid around a growth rate g
Grid(g) ==
    {<<w, h>> : w \in {out.base_wacc - WaccRange, out.base_wacc,
                       out.base_wacc + WaccRange},
                h \in {g - GrowthRange, g, g + GrowthRange}}

\* every cell returned holds the intrinsic value of a valuation of the input
\* at the cell's discount rate and growth rate, under the key of the two
CellsRecomputed ==
    \A i \in DOMAIN out.result[1] :
        LET cell == out.result[1][i][2]
        IN  /\ out.result[1][i][1] =
                   <<FormatPercent1(cell.wacc), FormatPercent1(cell.growth_rate)>>
            /\ \E f \in FsolveResults :
                  cell.intrinsic_value =
                      calculate_dcf_valuation(
                          [out.stock_data EXCEPT
                              !.growth_rate = Some(cell.growth_rate)],
                          cell.wacc, f).intrinsic_value

\* C28 as stated: on a valid input create_sensitivity_analysis returns a
\* recomputed intrinsic value for each of the 9 cells of the grid
\* {wacc - d, wacc, wacc + d} x {g - e, g, g + e}, g the perpetual growth
\* rate, and leaves the input stock data unchanged.
C28_NineCellsAroundPerpetualGrowth ==
    (IsSensitivity /\ ValidDcfInput(out.stock_data, out.base_wacc)) =>
        /\ ~out.raised
        /\ out.result # None
        /\ Len(out.result[1]) = 9
        /\ ReturnedCells = Grid(PERPETUAL_GROWTH_RATE)
        /\ CellsRecomputed
        /\ out.stock_data_after = out.stock_data

\* the stock data a valuation succeeds on at a discount rate above the
\* perpetual growth rate
ValuableStockData ==
    /\ out.stock_data.latest_fcf # None /\ out.stock_data.latest_fcf[1] > 0
    /\ out.stock_data.shares_outstanding # None
    /\ out.stock_data.shares_outstanding[1] # 0
    /\ out.stock_data.current_price # None
    /\ out.stock_data.current_price[1] # 0

\* C28 amended: the grid is around the growth_rate of the stock data, a cell
\* is returned for exactly the scenarios whose valuation succeeds (stock data
\* with a positive latest_fcf, shares and price other than 0, and a scenario
\* discount rate above the perpetual growth rate), each under its own key
\* with the recomputed value; stock data with an error gets no analysis,
\* stock data without growth_rate ends in a KeyError; the input stock data is
\* unchanged in every case.
C28_CellsAroundStockGrowth ==
    IsSensitivity =>
        /\ out.stock_data_after = out.stock_data
        /\ out.raised = (out.stock_data.error = None
                         /\ out.stock_data.growth_rate = None)
        /\ (out.result = None) =
               (out.stock_data.error # None \/ out.stock_data.growth_rate = None)
        /\ out.result # None =>
              /\ ReturnedCells \subseteq Grid(out.stock_data.growth_rate[1])
              /\ Len(out.result[1]) = Cardinality(ReturnedCells)
              /\ CellsRecomputed
              /\ ValuableStockData =>
                     ReturnedCells =
                         {c \in Grid(out.stock_data.growth_rate[1]) :
                             c[1] > PERPETUAL_GROWTH_RATE}
              /\ ~ValuableStockData => ReturnedCells = {}

\* an analysis of a valid input whose lowest discount rate is not above the
\* perpetual growth rate: six cells, around a growth rate other than the
\* perpetual one
C28_Witness ==
    /\ IsSensitivity
    /\ ValidDcfInput(out.stock_data, out.base_wacc)
    /\ out.result # None
    /\ Len(out.result[1]) = 6
    /\ out.stock_data.growth_rate # Some(PERPETUAL_GROWTH_RATE)
    /\ out.stock_data_after = out.stock_data


(***************************************************************************)
(* C29: a rebuild that fails.                                              *)
(***************************************************************************)
\* the step in which rebuild_cache returns False on an initialized cache
FailedRebuildStep ==
    /\ is_initialized
    /\ out = NoCall
    /\ out'.op = "rebuild_cache"
    /\ ~out'.result

\* C29: when rebuild_cache returns False on an initialized cache, the
\* in-memory index and the is_initialized flag are what they were before the
\* call, and every query returns afterwards what it returned before.
C29_FailedRebuildLeavesIndex ==
    [][FailedRebuildStep =>
          /\ stock_wacc_cache' = stock_wacc_cache
          /\ is_initialized' = is_initialized
          /\ \A symbol \in SaveQuerySymbols :
                GetStockWacc(is_initialized', stock_wacc_cache', symbol) =
                    GetStockWacc(is_initialized, stock_wacc_cache, symbol)]_vars

\* a rebuild that failed with an exception, although the source tables yield
\* another index than the one in memory, which is still served
C29_Witness ==
    /\ out.op = "rebuild_cache"
    /\ out.raised
    /\ ~out.result
    /\ is_initialized
    /\ stock_wacc_cache # <<>>
    /\ PreprocessOk
    /\ stock_wacc_cache # PreprocessMapping

====
